---- MODULE Spec2Model ----
(***************************************************************************)
(* Model of the JetBot motion controller (jetbot-backend/controls.py).     *)
(*                                                                         *)
(* Fixed-point units used throughout:                                      *)
(*   motor values      1e-4      (10000 = 1.0)                             *)
(*   time              ms                                                  *)
(*   distance_m        cm        (move_distance argument)                  *)
(*   radius_m          mm        (move_arc argument)                       *)
(*   angle_degrees     degrees                                             *)
(*   sensor distances  mm                                                  *)
(* Products and quotients of reals are computed exactly and floored once   *)
(* to the unit of the result.                                              *)
(***************************************************************************)
EXTENDS Integers, Sequences, FiniteSets, TLC

\* ---------------------------------------------------------------- schemas.py
MAX_MOTOR_VALUE == 10000
MIN_MOTOR_VALUE == 3000
STATIC_FRICTION_THRESHOLD == 3000
ULTRASONIC_SAFETY_THRESHOLD_M == 50
\* MOTOR_SPEED_FACTOR = 0.1827 m/s per unit motor value, in 1e-4 m/s
MOTOR_SPEED_FACTOR == 1827
LEFT_MOTOR_OFFSET == 85
\* WHEELBASE_M = 0.0540 m, in mm
WHEELBASE_M == 54
\* ACCEL_DECEL_RATIO = 0.25, in percent
ACCEL_DECEL_RATIO == 25
ACCEL_DECEL_STEPS == 5
MIN_ACCEL_DECEL_TIME == 150
\* overshoot correction, in 1e-5 (3%, 0.005% per degree, 7%)
OSHOOT_CORRECTION_START == 3000
OSHOOT_CORRECTION_SLOPE == 5
OSHOOT_CORRECTION_MAX == 7000
\* jetbot/ultrasonic.py, in mm and ms
MIN_DISTANCE_M == 20
MAX_DISTANCE_M == 4000
ECHO_TIMEOUT_S == 100
\* check_interval = 0.05 in the constant phase; time.sleep(0.05) at motor start
CHECK_INTERVAL == 50
START_PAUSE == 50
\* values below 0.05 are written as 0 by _smooth_stop
JITTER_CUTOFF == 500

\* ------------------------------------------------------------------ helpers
None == -1

Abs(x) == IF x >= 0 THEN x ELSE -x

Max(a, b) == IF a >= b THEN a ELSE b

Min(a, b) == IF a <= b THEN a ELSE b

\* floor(a * b / c) for a, b >= 0, c > 0 without leaving 32-bit range
MulDiv(a, b, c) == (a \div c) * b + ((a % c) * b) \div c

\* 1 if x >= 0 else -1
Dir(x) == IF x >= 0 THEN 1 ELSE -1

\* motor_value = max(MIN_MOTOR_VALUE, min(abs(robot_speed), MAX_MOTOR_VALUE))
ClampSpeed(robot_speed) ==
    Max(MIN_MOTOR_VALUE, Min(Abs(robot_speed), MAX_MOTOR_VALUE))

\* length_um / (motor_value * MOTOR_SPEED_FACTOR), in ms
DurationMs(length_um, motor_value) ==
    MulDiv(MulDiv(length_um, 100, motor_value), 1000, MOTOR_SPEED_FACTOR)

\* math.radians(angle_abs), in micro-radians (pi = 355/113)
Radians(angle_abs) == MulDiv(angle_abs * 355 * 1000, 1000, 113 * 180)

\* ------------------------------------------------- velocity profile planning
\* Overflow handling of move_distance (lines 350-358) and move_arc (lines
\* 656-665): returns <<left_motor, right_motor>>.  right_pos / right_neg are
\* the values the right wheel is reduced from in the two branches
\* (motor_value / -motor_value in move_distance, right_motor in move_arc).
HandleOverflow(left_motor, right_motor, right_pos, right_neg, direction) ==
    IF left_motor > MAX_MOTOR_VALUE
      THEN <<MAX_MOTOR_VALUE,
             Max(0, right_pos - (left_motor - MAX_MOTOR_VALUE)) * direction>>
    ELSE IF left_motor < -MAX_MOTOR_VALUE
      THEN <<-MAX_MOTOR_VALUE,
             Min(0, right_neg + Abs(left_motor + MAX_MOTOR_VALUE)) * direction>>
    ELSE <<left_motor, right_motor>>

\* variant: the constant duration is what the two full ramp times leave over
MoveDistancePhases_FullRamps(duration_s) ==
    LET acceleration_time == (duration_s * ACCEL_DECEL_RATIO) \div 100
        deceleration_time == (duration_s * ACCEL_DECEL_RATIO) \div 100
    IN  <<acceleration_time,
          duration_s - acceleration_time - deceleration_time,
          deceleration_time>>

\* move_distance: acceleration / constant / deceleration split
\* returns <<acceleration_time, constant_duration, deceleration_time>>
MoveDistancePhases(duration_s) ==
    LET acceleration_time == (duration_s * ACCEL_DECEL_RATIO) \div 100
        deceleration_time == (duration_s * ACCEL_DECEL_RATIO) \div 100
        constant_duration == duration_s - (acceleration_time \div 2)
                                        - (deceleration_time \div 2)
        total_phase_time == acceleration_time + deceleration_time
    IN  IF constant_duration < 0
          THEN IF total_phase_time > 0
                 THEN <<MulDiv(acceleration_time, duration_s, 2 * total_phase_time),
                        0,
                        MulDiv(deceleration_time, duration_s, 2 * total_phase_time)>>
                 ELSE <<0, duration_s, 0>>
          ELSE <<acceleration_time, constant_duration, deceleration_time>>

\* move_distance: offset_to_apply (lines 330-344)
MoveDistanceOffset(motor_value, direction) ==
    IF direction > 0
      THEN IF motor_value + LEFT_MOTOR_OFFSET > MAX_MOTOR_VALUE
             THEN LEFT_MOTOR_OFFSET
                    - (motor_value + LEFT_MOTOR_OFFSET - MAX_MOTOR_VALUE)
             ELSE LEFT_MOTOR_OFFSET
      ELSE IF (-motor_value) - LEFT_MOTOR_OFFSET < -MAX_MOTOR_VALUE
             THEN (-LEFT_MOTOR_OFFSET)
                    + Abs((-motor_value) - LEFT_MOTOR_OFFSET + MAX_MOTOR_VALUE)
             ELSE -LEFT_MOTOR_OFFSET

\* move_distance lines 292-358: the profile of one call
MoveDistanceProfile(distance_m, robot_speed) ==
    LET direction == Dir(distance_m)
        distance_abs == Abs(distance_m)
        motor_value == ClampSpeed(robot_speed)
        duration_s == DurationMs(distance_abs * 10000, motor_value)
        phases == MoveDistancePhases(duration_s)
        offset_to_apply == MoveDistanceOffset(motor_value, direction)
        base_left_motor == motor_value * direction
        base_right_motor == motor_value * direction
        lr == HandleOverflow(base_left_motor + offset_to_apply,
                             base_right_motor, motor_value, -motor_value,
                             direction)
    IN  [ left_motor |-> lr[1], right_motor |-> lr[2],
          acceleration_time |-> phases[1],
          constant_duration |-> phases[2],
          deceleration_time |-> phases[3],
          duration_s |-> duration_s,
          offset_to_apply |-> offset_to_apply,
          direction |-> direction,
          motor_value |-> motor_value,
          ratio |-> <<1, 1>>,
          base_left |-> base_left_motor, base_right |-> base_right_motor ]

\* rotate / move_arc: deceleration and constant phase
\* returns <<constant_duration, deceleration_time>>
DecelOnlyPhases(duration_s) ==
    LET deceleration_time ==
            Max(MIN_ACCEL_DECEL_TIME, (duration_s * ACCEL_DECEL_RATIO) \div 100)
        constant_duration == duration_s - (deceleration_time \div 2)
    IN  IF constant_duration < 0
          THEN <<duration_s \div 10, duration_s - (duration_s \div 10)>>
          ELSE <<constant_duration, deceleration_time>>

\* variant: the correction grows without a cap
OvershootCorrected_NoCap(duration_s, angle_abs) ==
    IF angle_abs > 90
      THEN LET overshoot_pct ==
                 OSHOOT_CORRECTION_START
                   + (angle_abs - 90) * OSHOOT_CORRECTION_SLOPE
           IN  MulDiv(duration_s, 100000 - overshoot_pct, 100000)
      ELSE duration_s

\* rotate lines 487-492: overshoot correction of the duration
OvershootCorrected(duration_s, angle_abs) ==
    IF angle_abs > 90
      THEN LET overshoot_pct ==
                 Min(OSHOOT_CORRECTION_START
                       + (angle_abs - 90) * OSHOOT_CORRECTION_SLOPE,
                     OSHOOT_CORRECTION_MAX)
           IN  MulDiv(duration_s, 100000 - overshoot_pct, 100000)
      ELSE duration_s

\* rotate lines 478-511
RotateProfile(angle_degrees, robot_speed) ==
    LET motor_value == ClampSpeed(robot_speed)
        angle_abs == Abs(angle_degrees)
        wheel_distance_m == MulDiv(Radians(angle_abs), WHEELBASE_M, 2 * 1000)
        duration_s == OvershootCorrected(
                          DurationMs(wheel_distance_m, motor_value), angle_abs)
        phases == DecelOnlyPhases(duration_s)
    IN  [ left_motor |-> IF angle_degrees > 0 THEN motor_value ELSE -motor_value,
          right_motor |-> IF angle_degrees > 0 THEN -motor_value ELSE motor_value,
          acceleration_time |-> 0,
          constant_duration |-> phases[1],
          deceleration_time |-> phases[2],
          duration_s |-> duration_s,
          offset_to_apply |-> 0,
          direction |-> Dir(angle_degrees),
          motor_value |-> motor_value,
          ratio |-> <<1, 1>>,
          base_left |-> IF angle_degrees > 0 THEN motor_value ELSE -motor_value,
          base_right |-> IF angle_degrees > 0 THEN -motor_value ELSE motor_value ]

\* move_arc lines 586-589: radius magnitude floored at half the track width
EffectiveRadius(radius_m) ==
    IF 2 * Abs(radius_m) < WHEELBASE_M THEN WHEELBASE_M \div 2 ELSE Abs(radius_m)

\* variant: the ratio is not floored at MIN_MOTOR_VALUE / motor_value
SpeedRatio_NoFloor(radius_abs, motor_value) ==
    <<2 * radius_abs - WHEELBASE_M, 2 * radius_abs + WHEELBASE_M>>

\* move_arc lines 612-620 / 627-635: inner/outer speed ratio as a fraction
\* <<numerator, denominator>>, floored at MIN_MOTOR_VALUE / motor_value
\* (radii doubled so that half the track width stays integral)
SpeedRatio(radius_abs, motor_value) ==
    LET inner_radius == 2 * radius_abs - WHEELBASE_M
        outer_radius == 2 * radius_abs + WHEELBASE_M
    IN  IF inner_radius * motor_value < MIN_MOTOR_VALUE * outer_radius
          THEN <<MIN_MOTOR_VALUE, motor_value>>
          ELSE <<inner_radius, outer_radius>>

\* move_arc lines 641-650: offset_to_apply
ArcOffset(base_left_motor, direction) ==
    IF direction > 0
      THEN IF base_left_motor + LEFT_MOTOR_OFFSET > MAX_MOTOR_VALUE
             THEN LEFT_MOTOR_OFFSET
                    - (base_left_motor + LEFT_MOTOR_OFFSET - MAX_MOTOR_VALUE)
             ELSE LEFT_MOTOR_OFFSET
      ELSE 0

\* move_arc lines 577-665
ArcProfile(radius_m, angle_degrees, robot_speed) ==
    LET motor_value == ClampSpeed(robot_speed)
        direction == Dir(angle_degrees)
        angle_abs == Abs(angle_degrees)
        radius_abs == EffectiveRadius(radius_m)
        arc_distance_m == MulDiv(Radians(angle_abs), radius_abs, 1000)
        duration_s == DurationMs(arc_distance_m, motor_value)
        phases == DecelOnlyPhases(duration_s)
        speed_ratio == SpeedRatio(radius_abs, motor_value)
        inner == MulDiv(motor_value, speed_ratio[1], speed_ratio[2])
        base_left_motor ==
            IF radius_m > 0 THEN inner * direction ELSE motor_value * direction
        base_right_motor ==
            IF radius_m > 0 THEN motor_value * direction ELSE inner * direction
        offset_to_apply == ArcOffset(base_left_motor, direction)
        lr == HandleOverflow(base_left_motor + offset_to_apply,
                             base_right_motor, base_right_motor,
                             base_right_motor, direction)
    IN  [ left_motor |-> lr[1], right_motor |-> lr[2],
          acceleration_time |-> 0,
          constant_duration |-> phases[1],
          deceleration_time |-> phases[2],
          duration_s |-> duration_s,
          offset_to_apply |-> offset_to_apply,
          direction |-> direction,
          motor_value |-> motor_value,
          ratio |-> speed_ratio,
          base_left |-> base_left_motor, base_right |-> base_right_motor ]

\* variant: the ramp starts from 0 instead of the static friction threshold
SmoothStartValues_FromZero(left_motor_target, right_motor_target, left_offset, step) ==
    LET base_left_motor == left_motor_target - left_offset
        left_dir == Dir(base_left_motor)
        right_dir == Dir(right_motor_target)
        left_ramp == ((Abs(base_left_motor) * (step + 1)) \div ACCEL_DECEL_STEPS)
                        * left_dir
        right_ramp == ((Abs(right_motor_target) * (step + 1))
                          \div ACCEL_DECEL_STEPS) * right_dir
    IN  <<left_ramp + left_offset * left_dir, right_ramp>>

\* ------------------------------------------------------------ ramp generator
\* _smooth_start lines 201-248: the values written at ramp step `step`
\* returns <<left_val, right_val>>
SmoothStartValues(left_motor_target, right_motor_target, left_offset, step) ==
    LET base_left_motor == left_motor_target - left_offset
        base_right_motor == right_motor_target
        left_base_abs == Abs(base_left_motor)
        right_abs == Abs(base_right_motor)
        left_dir == Dir(base_left_motor)
        right_dir == Dir(right_motor_target)
        offset_dir == IF base_left_motor # 0 THEN left_dir ELSE Dir(left_offset)
        start_motor_left == Min(STATIC_FRICTION_THRESHOLD, left_base_abs)
        start_motor_right == Min(STATIC_FRICTION_THRESHOLD, right_abs)
        \* progress = (step + 1) / ACCEL_DECEL_STEPS
        left_ramp == (start_motor_left
                       + ((left_base_abs - start_motor_left) * (step + 1))
                            \div ACCEL_DECEL_STEPS) * left_dir
        right_ramp == (start_motor_right
                        + ((right_abs - start_motor_right) * (step + 1))
                             \div ACCEL_DECEL_STEPS) * right_dir
        left_val == left_ramp + left_offset * offset_dir
    IN  IF Abs(left_offset) > 0
          THEN IF left_val > MAX_MOTOR_VALUE
                 THEN <<MAX_MOTOR_VALUE,
                        Max(0, right_ramp - (left_val - MAX_MOTOR_VALUE)) * right_dir>>
               ELSE IF left_val < -MAX_MOTOR_VALUE
                 THEN <<-MAX_MOTOR_VALUE,
                        Min(0, right_ramp + Abs(left_val + MAX_MOTOR_VALUE)) * right_dir>>
               ELSE <<left_val, right_ramp>>
          ELSE <<left_ramp, right_ramp>>

\* variant: the ramp value loses the direction sign
SmoothStopValue_Unsigned(motor_start, step) ==
    LET scaled == Abs(motor_start) * (ACCEL_DECEL_STEPS - step)
    IN  IF scaled < JITTER_CUTOFF * ACCEL_DECEL_STEPS
          THEN 0
          ELSE scaled \div ACCEL_DECEL_STEPS

\* _smooth_stop lines 136-163: the values written at ramp step `step`
\* (progress = 1 - step / ACCEL_DECEL_STEPS; |value| < 0.05 is written as 0)
SmoothStopValue(motor_start, step) ==
    LET v_abs == Abs(motor_start)
        scaled == v_abs * (ACCEL_DECEL_STEPS - step)
    IN  IF scaled < JITTER_CUTOFF * ACCEL_DECEL_STEPS
          THEN 0
          ELSE (scaled \div ACCEL_DECEL_STEPS) * Dir(motor_start)

SmoothStopValues(left_motor_start, right_motor_start, step) ==
    <<SmoothStopValue(left_motor_start, step),
      SmoothStopValue(right_motor_start, step)>>

\* step_time = phase time / ACCEL_DECEL_STEPS
StepTime(phase_time) == phase_time \div ACCEL_DECEL_STEPS

\* robot.stop() (Robot is not part of the sources; it zeroes both motors)
RobotStop == <<0, 0>>

\* variant: _smooth_stop returns after the last ramp step without the final
\* robot.stop()
SmoothStopEnd_NoFinalStop(left_val, right_val) == <<left_val, right_val>>

\* _smooth_stop lines 128-130 and 173-175: the motor values it leaves behind
\* when it returns True, given the values before
SmoothStopEnd(left_val, right_val) == RobotStop

\* ------------------------------------------------------------------- sensor
\* what the echo pin does on one read: no echo within the timeout, or an echo
\* from an obstacle at the given distance (mm)
NoEcho == -2
SPEED_OF_SOUND_M_S == 343

Echoes == {NoEcho, 10, 30, 50, 150}

\* a read that raises instead of returning (GPIO fault, failed _setup)
ReadError == -3

\* what the read inside the try block of _check_ultrasonic_safety may do
Samples == Echoes \cup {ReadError}

\* jetbot/ultrasonic.py read_distance: None on timeout or out of range
ReadDistance(echo) ==
    IF echo = NoEcho THEN None
    ELSE IF echo < MIN_DISTANCE_M \/ echo > MAX_DISTANCE_M THEN None
    ELSE echo

\* wall-clock time of one read in ms: the timeout, or the echo round trip
ReadTime(echo) ==
    IF echo = NoEcho THEN ECHO_TIMEOUT_S
    ELSE IF echo = ReadError THEN 0
    ELSE (2 * echo) \div SPEED_OF_SOUND_M_S

\* variant: the reading is compared with the sensor's minimum range instead of
\* the safety threshold
CheckUltrasonicSafety_WrongThreshold(echo) ==
    LET distance == ReadDistance(echo)
    IN  IF distance # None /\ distance < MIN_DISTANCE_M
          THEN [is_safe |-> FALSE, distance |-> distance, stop |-> TRUE]
          ELSE [is_safe |-> TRUE, distance |-> distance, stop |-> FALSE]

\* variant: the check reports the obstacle without calling robot.stop()
CheckUltrasonicSafety_NoStop(echo) ==
    LET distance == ReadDistance(echo)
    IN  IF distance # None /\ distance < ULTRASONIC_SAFETY_THRESHOLD_M
          THEN [is_safe |-> FALSE, distance |-> distance, stop |-> FALSE]
          ELSE [is_safe |-> TRUE, distance |-> distance, stop |-> FALSE]

\* variant: a read that raises or returns no distance is reported as unsafe
CheckUltrasonicSafety_FailClosed(echo) ==
    IF echo = ReadError \/ ReadDistance(echo) = None
      THEN [is_safe |-> FALSE, distance |-> None, stop |-> TRUE]
      ELSE [is_safe |-> ReadDistance(echo) >= ULTRASONIC_SAFETY_THRESHOLD_M,
            distance |-> ReadDistance(echo),
            stop |-> ReadDistance(echo) < ULTRASONIC_SAFETY_THRESHOLD_M]

\* variant: a read that raises or returns no distance is reported as the
\* sensor's maximum range
CheckUltrasonicSafety_MaxRangeOnFailure(echo) ==
    IF echo = ReadError \/ ReadDistance(echo) = None
      THEN [is_safe |-> TRUE, distance |-> MAX_DISTANCE_M, stop |-> FALSE]
      ELSE [is_safe |-> ReadDistance(echo) >= ULTRASONIC_SAFETY_THRESHOLD_M,
            distance |-> ReadDistance(echo),
            stop |-> ReadDistance(echo) < ULTRASONIC_SAFETY_THRESHOLD_M]

\* _check_ultrasonic_safety lines 100-110: [is_safe, distance, stop], stop
\* telling whether robot.stop() was called
CheckUltrasonicSafety(echo) ==
    IF echo = ReadError
      THEN [is_safe |-> TRUE, distance |-> None, stop |-> FALSE]
      ELSE LET distance == ReadDistance(echo)
           IN  IF distance # None /\ distance < ULTRASONIC_SAFETY_THRESHOLD_M
                 THEN [is_safe |-> FALSE, distance |-> distance, stop |-> TRUE]
                 ELSE [is_safe |-> TRUE, distance |-> distance, stop |-> FALSE]

\* -------------------------------------------------------------------- state
VARIABLES
    left_motor_value,   \* robot.left_motor.value
    right_motor_value,  \* robot.right_motor.value
    pc,                 \* position of the control thread inside the current call
    cmd,                \* the motion call being executed (its arguments)
    prof,               \* the profile computed by the call
    step,               \* loop index of the ramp being executed
    elapsed,            \* time.time() - start_time in the constant phase
    status,             \* "status" of the result of the last call
    final_ultrasonic,   \* "final_ultrasonic" of the result of the last call
    low_sample,         \* history: interlock reading below the threshold in this call
    abort_phase,        \* history: phase in which the interlock aborted this call
    writes,             \* history: number of motor writes made by this call
    gap,                \* history: ms slept since the last interlock sample returned
    sample,             \* history: the last interlock sample of this call
    last_good,          \* history: last distance an interlock sample of this call read
    stopped,            \* history: stop() was called from another thread during this call
    \* telemetry bridge (the thread running _websocket_client_loop)
    _websocket_client_running,
    _websocket,         \* the open connection, or NoWebsocket
    latest_detections,  \* the detection cache, or NoFrame
    bpc,                \* position of the bridge thread
    message,            \* the inbound message being handled
    built,              \* entries evaluated of the dict display being built
    lost,               \* history: how the connection was last lost
    waited,             \* history: time.sleep(5) ran since the connection was lost
    dropped,            \* history: a message was dropped on the current connection
    sender,             \* position of the frame sender task (_send_frames_async)
    telemetry,          \* the sensor and motor snapshot the sender has read
    \* callers of the bridge and rotate_until_object_center
    held,               \* the value a reader of the cache last obtained
    spc,                \* position inside rotate_until_object_center
    items,              \* its arguments
    center_threshold,
    i,                  \* its loop index
    total_angle_rotated,
    result,             \* the result of the last rotate_until_object_center call
    labels_call,        \* state of the set_labels call it made
    ack_received,       \* history: a label acknowledgement arrived since that call
    increments,         \* history: rotation increments performed by this call
    centered_at,        \* history: increments done when a centered target was first inspected
    fresh,              \* history: a frame was stored between the last stop and the read of the cache
    \* the HTTP interface (api.py), one entry per request in progress
    request,            \* the request a handler was created for
    handler,            \* "idle", "accepted", "running" or "responded"
    qi,                 \* index of the movement a handler is at
    phase,              \* "none", "call", "moving", "returned" or "pause"
    outcomes,           \* the status each movement a handler called returned
    response,           \* the response the handler returned
    pauses,             \* history: time.sleep(0.5) calls made by queue_movement
    order,              \* history: indices of the movements called, in call order
    \* one connection to the /ws/yoloe endpoint (ws_yoloe.py)
    ws_state,           \* "none", "open", "disconnected" or "closed" (code 1011)
    inbox,              \* texts the client sent that receive_text has not returned yet
    active_labels,      \* the connection's label set
    sent,               \* history: the messages the endpoint sent, in order
    taken,              \* history: the texts receive_text returned, in order
    \* one direct call of queue_movement (controls.py), entries unchecked by api.py
    queued,             \* its argument, movements
    queue_pc,           \* "idle", "check", "run", "pause", "raised" or "returned"
    queue_i,            \* the loop index i (from 1)
    executed,           \* history: indices of the entries whose function was called
    \* the threads start_websocket_client has created, and the thread calling it
    client_threads,     \* position of each thread in _websocket_client_loop
    _websocket_client_task,  \* the Thread start_websocket_client last stored
    caller,             \* "idle", or "joining" inside stop_websocket_client
    \* one telemetry websocket server (TelemetryManager / WebSocketManager)
    server,             \* which of the two servers this is
    active_connections,
    _broadcast_running,
    _broadcast_task,    \* the task connect_websocket last stored, or None
    tasks,              \* state of each task create_task has made
    conn,               \* position of each client's connect_websocket call
    awaited,            \* the task a disconnecting call is awaiting
    iter_used           \* size of active_connections when a task began iterating it

\* the histories every interlock sample updates, and the one it keeps
samples == <<low_sample, sample, last_good, stopped>>

\* the state of the motion calls, the motors apart
motion_vars == <<pc, cmd, prof, step, elapsed, status, final_ultrasonic,
                 low_sample, abort_phase, writes, gap, sample, last_good, stopped>>

sender_vars == <<sender, telemetry>>

bridge_vars == <<_websocket_client_running, _websocket, latest_detections, bpc,
                 message, built, lost, waited, dropped, sender_vars>>

search_vars == <<held, spc, items, center_threshold, i, total_angle_rotated,
                 result, labels_call, ack_received, increments, centered_at, fresh>>

api_vars == <<request, handler, qi, phase, outcomes, response, pauses, order>>

yoloe_vars == <<ws_state, inbox, active_labels, sent, taken>>

queue_vars == <<queued, queue_pc, queue_i, executed>>

lifecycle_vars == <<client_threads, _websocket_client_task, caller>>

broadcast_vars == <<server, active_connections, _broadcast_running, _broadcast_task,
                    tasks, conn, awaited, iter_used>>

extra_vars == <<queue_vars, lifecycle_vars, broadcast_vars>>

service_vars == <<api_vars, yoloe_vars, extra_vars>>

vars == <<left_motor_value, right_motor_value, motion_vars, bridge_vars,
          search_vars, service_vars>>

\* ------------------------------------------------------------------- inputs
\* threads start_websocket_client may create in one run of the model
MaxThreads == 3
Threads == 1..MaxThreads

\* tasks connect_websocket may create in one run of the model, and the clients
MaxTasks == 3
Tasks == 1..MaxTasks
Clients == {"c1", "c2"}
Servers == {"yoloe", "jetbot"}

Speeds == {3000, 5000, 9950, 10000}

Distances == {-200, -100, -1, 0, 1, 100, 200}

Angles == {-720, -90, -15, 0, 15, 90, 100, 720}

ArcRadii == {-1000, -250, -10, 0, 10, 250, 1000}

ArcAngles == {-90, -1, 0, 1, 90}

NoCmd == [kind |-> "none", distance_m |-> 0, radius_m |-> 0,
          angle_degrees |-> 0, robot_speed |-> 0]

NoProf == [left_motor |-> 0, right_motor |-> 0, acceleration_time |-> 0,
           constant_duration |-> 0, deceleration_time |-> 0, duration_s |-> 0,
           offset_to_apply |-> 0, direction |-> 1, motor_value |-> 0,
           ratio |-> <<1, 1>>, base_left |-> 0, base_right |-> 0]

\* no interlock sample taken yet in this call
NoSample == [echo |-> None, is_safe |-> TRUE, distance |-> None,
             phase |-> "none"]

\* variant: travel calls are interlocked in both directions
CheckSafety_BothDirections == cmd.kind \in {"move_distance", "move_arc"}

\* variant: every call with a positive direction is interlocked
CheckSafety_AnyPositive == prof.direction > 0

\* forward move_distance / move_arc calls are the interlocked ones
\* (check_safety = (direction > 0)); rotate has no check_safety at all
CheckSafety == cmd.kind \in {"move_distance", "move_arc"} /\ prof.direction > 0

\* phase of the command the control thread is in
Phase ==
    CASE pc \in {"idle", "pre_check"} -> "IDLE"
      [] pc \in {"accel", "accel_final", "rot_target", "arc_start", "arc_target"}
           -> "ACCEL"
      [] pc \in {"arc_post", "const"} -> "CONST"
      [] pc = "decel" -> "DECEL"

\* ---------------------------------------------------- telemetry bridge data
\* schemas.py
IMAGE_WIDTH == 1640
IMAGE_HEIGHT == 1232
\* rotate_until_object_center lines 919 and 933-934
INCREMENT_DEGREES == 15
MAX_ROTATION == 360

\* variant: the sweep is one revolution
NUM_INCREMENTS_OneRevolution == MAX_ROTATION \div INCREMENT_DEGREES

\* line 934: int(max_rotation / increment_degrees) * 2
NUM_INCREMENTS == (MAX_ROTATION \div INCREMENT_DEGREES) * 2

\* self._websocket is None
NoWebsocket == "none"

\* self.latest_detections is None
NoFrame == [none |-> TRUE]

NoMessage == [json |-> "none"]

\* a JSON null
JsonNull == [null |-> TRUE]

\* the keys of the cached frame, in the order the dict display evaluates them
FrameKeys == <<"detections", "num_detections", "model", "labels">>

\* the default of data.get(key, default) for each key ([] / 0 / {} / [])
FrameDefault(key) == IF key = "detections" THEN <<>> ELSE 0

\* data.get(key, default)
Get(data, key, default) == IF key \in DOMAIN data THEN data[key] ELSE default

\* the detection lists of the feed: nothing; a bottle 201 px left of the image
\* center, at the top edge; a cup at the horizontal center, at the bottom
\* edge, and a bottle 200 px right of the center, at mid height
\* (main.py line 189: box {x1, y1, x2, y2})
DetectionsOf(id) ==
    CASE id = 1 -> <<>>
      [] id = 2 -> <<[class_name |-> "bottle", x1 |-> 400, x2 |-> 838,
                      y1 |-> 0, y2 |-> 200]>>
      [] id = 3 -> <<[class_name |-> "cup", x1 |-> 700, x2 |-> 940,
                      y1 |-> 1000, y2 |-> 1232],
                     [class_name |-> "bottle", x1 |-> 820, x2 |-> 1220,
                      y1 |-> 516, y2 |-> 716]>>

\* inbound {type: "detections", ...} message number id; model and labels are
\* opaque values that differ from message to message
DetectionsMessage(id) ==
    [json |-> "object", type |-> "detections",
     detections |-> DetectionsOf(id), num_detections |-> Len(DetectionsOf(id)),
     model |-> id, labels |-> id]

FeedIds == 1..3

\* what the server may send: detections (one of them without any other key),
\* label acknowledgements, a label event whose data is null, an unknown
\* type, JSON that is not an object, and text that is not JSON
Inbound ==
    {DetectionsMessage(id) : id \in FeedIds}
      \cup {[json |-> "object", type |-> "detections"],
            [json |-> "object", type |-> "labels_response"],
            [json |-> "object", type |-> "event",
             event_type |-> "labels_updated", data |-> [labels |-> 1]],
            [json |-> "object", type |-> "event",
             event_type |-> "labels_updated", data |-> JsonNull],
            [json |-> "object", type |-> "pong"],
            [json |-> "array"],
            [json |-> "invalid"]}

NoResult == [status |-> "none", angle_degrees_found |-> 0, found_item |-> "",
             final_ultrasonic |-> None]

\* __init__ lines 82-89: empty cache, bridge thread started
\* no snapshot read yet
NoTelemetry == [read |-> {}]

BridgeInit ==
    /\ _websocket_client_running = TRUE
    /\ _websocket = NoWebsocket
    /\ latest_detections = NoFrame
    /\ bpc = "loop"
    /\ message = NoMessage
    /\ built = 0
    /\ lost = "none"
    /\ waited = FALSE
    /\ dropped = FALSE
    /\ sender = "none"
    /\ telemetry = NoTelemetry

SearchInit ==
    /\ held = NoFrame
    /\ spc = "idle"
    /\ items = {}
    /\ center_threshold = 0
    /\ i = 0
    /\ total_angle_rotated = 0
    /\ result = NoResult
    /\ labels_call = "none"
    /\ ack_received = FALSE
    /\ increments = 0
    /\ centered_at = 0
    /\ fresh = FALSE

\* the requests that can be in progress at the same time
Slots == 1..2

NoRequest == [endpoint |-> "none", movements |-> <<>>]

NoResponse == [kind |-> "none"]

ApiInit ==
    /\ request = [h \in Slots |-> NoRequest]
    /\ handler = [h \in Slots |-> "idle"]
    /\ qi = [h \in Slots |-> 0]
    /\ phase = [h \in Slots |-> "none"]
    /\ outcomes = [h \in Slots |-> <<>>]
    /\ response = [h \in Slots |-> NoResponse]
    /\ pauses = [h \in Slots |-> 0]
    /\ order = [h \in Slots |-> <<>>]

YoloeInit ==
    /\ ws_state = "none"
    /\ inbox = <<>>
    /\ active_labels = {}
    /\ sent = <<>>
    /\ taken = <<>>

QueueInit ==
    /\ queued = <<>>
    /\ queue_pc = "idle"
    /\ queue_i = 0
    /\ executed = <<>>

\* start_websocket_client has been called once (BridgeInit): its thread is
\* thread 1, at the top of _websocket_client_loop
LifecycleInit ==
    /\ client_threads = [t \in Threads |-> IF t = 1 THEN "loop" ELSE "none"]
    /\ _websocket_client_task = 1
    /\ caller = "idle"

BroadcastInit ==
    /\ active_connections = {}
    /\ _broadcast_running = FALSE
    /\ _broadcast_task = None
    /\ tasks = [t \in Tasks |-> "none"]
    /\ conn = [c \in Clients |-> "closed"]
    /\ awaited = [c \in Clients |-> None]
    /\ iter_used = [t \in Tasks |-> None]

\* every object after construction, whichever telemetry server is run
Constructed ==
    /\ BridgeInit
    /\ SearchInit
    /\ ApiInit
    /\ YoloeInit
    /\ QueueInit
    /\ LifecycleInit
    /\ BroadcastInit
    /\ left_motor_value = 0
    /\ right_motor_value = 0
    /\ pc = "idle"
    /\ cmd = NoCmd
    /\ prof = NoProf
    /\ step = 0
    /\ elapsed = 0
    /\ status = "none"
    /\ final_ultrasonic = None
    /\ low_sample = None
    /\ abort_phase = "none"
    /\ writes = 0
    /\ gap = 0
    /\ sample = NoSample
    /\ last_good = None
    /\ stopped = FALSE

\* the robot's process serves WebSocketManager (jetbot-backend/websocket.py)
\* and the backend TelemetryManager (yoloe-backend/websocket.py); the
\* connection model below is of either
Init ==
    /\ Constructed
    /\ server = "yoloe"

\* ----------------------------------------------------------- action helpers
\* the call returns {status, final_ultrasonic}
Return(st, fu) ==
    /\ pc' = "idle"
    /\ status' = st
    /\ final_ultrasonic' = fu
    /\ step' = 0
    /\ elapsed' = 0

\* a new call starts: per-call history is reset
Begin(c, p, next) ==
    /\ cmd' = c
    /\ prof' = p
    /\ pc' = next
    /\ status' = "running"
    /\ final_ultrasonic' = None
    /\ low_sample' = None
    /\ sample' = NoSample
    /\ last_good' = None
    /\ stopped' = FALSE
    /\ abort_phase' = "none"
    /\ step' = 0
    /\ elapsed' = 0

\* zero-magnitude request: one sensor read, no motor access
Invalid(c) ==
    /\ cmd' = c
    /\ prof' = NoProf
    /\ \E echo \in Echoes : Return("invalid_movement", ReadDistance(echo))
    /\ low_sample' = None
    /\ sample' = NoSample
    /\ last_good' = None
    /\ stopped' = FALSE
    /\ abort_phase' = "none"
    /\ writes' = 0
    /\ gap' = 0
    /\ UNCHANGED <<left_motor_value, right_motor_value>>

SetMotors(lr) ==
    /\ left_motor_value' = lr[1]
    /\ right_motor_value' = lr[2]

\* the reading an interlock sample recorded below the threshold, if any
LowReading(echo, old) ==
    IF ReadDistance(echo) # None
         /\ ReadDistance(echo) < ULTRASONIC_SAFETY_THRESHOLD_M
      THEN ReadDistance(echo) ELSE old

\* an interlock sample was taken: what the histories record of it
Sampled(chk, echo) ==
    /\ low_sample' = LowReading(echo, low_sample)
    /\ sample' = [echo |-> echo, is_safe |-> chk.is_safe,
                  distance |-> chk.distance, phase |-> Phase]
    /\ last_good' = IF chk.distance # None THEN chk.distance ELSE last_good
    /\ UNCHANGED stopped

\* the interlock tripped: the call returns "safety" with the distance `fu`.
\* lr are the motor values before the check, w the writes this step made
\* before the check.
Abort(chk, echo, fu, lr, w) ==
    /\ SetMotors(IF chk.stop THEN RobotStop ELSE lr)
    /\ writes' = writes + w + (IF chk.stop THEN 1 ELSE 0)
    /\ Sampled(chk, echo)
    /\ abort_phase' = Phase
    /\ gap' = 0
    /\ Return("safety", fu)
    /\ UNCHANGED <<cmd, prof>>

\* abort of a caller that reads the sensor again for the result
AbortReread(chk, echo, lr, w) ==
    \E echo2 \in Echoes : Abort(chk, echo, ReadDistance(echo2), lr, w)

Motors == <<left_motor_value, right_motor_value>>

\* variant: move_arc validates the angle only
InvalidMovement_AngleOnly(c) ==
    CASE c.kind = "move_distance" -> c.distance_m = 0
      [] c.kind = "rotate" -> c.angle_degrees = 0
      [] c.kind = "move_arc" -> c.angle_degrees = 0

\* input validation of the three calls (lines 280, 467, 565)
InvalidMovement(c) ==
    CASE c.kind = "move_distance" -> c.distance_m = 0
      [] c.kind = "rotate" -> c.angle_degrees = 0
      [] c.kind = "move_arc" -> c.angle_degrees = 0 \/ c.radius_m = 0

\* ------------------------------------------------------------ move_distance
MoveDistance(distance_m, robot_speed) ==
    /\ pc = "idle"
    /\ UNCHANGED <<bridge_vars, search_vars, service_vars>>
    /\ LET c == [kind |-> "move_distance", distance_m |-> distance_m,
                 radius_m |-> 0, angle_degrees |-> 0,
                 robot_speed |-> robot_speed]
           p == MoveDistanceProfile(distance_m, robot_speed)
       IN  IF InvalidMovement(c)
             THEN Invalid(c)
             ELSE /\ Begin(c, p, IF p.direction > 0 THEN "pre_check" ELSE "accel")
                  /\ writes' = 0
                  /\ gap' = 0
                  /\ UNCHANGED <<left_motor_value, right_motor_value>>

\* lines 365-378 / 671-684: the check before the motors start
PreCheck ==
    /\ pc = "pre_check"
    /\ UNCHANGED <<bridge_vars, search_vars, service_vars>>
    /\ \E echo \in Samples :
         LET chk == CheckUltrasonicSafety(echo)
         IN  IF ~chk.is_safe
               THEN AbortReread(chk, echo, Motors, 0)
               ELSE /\ pc' = IF cmd.kind = "move_arc" THEN "arc_start" ELSE "accel"
                    /\ Sampled(chk, echo)
                    /\ UNCHANGED <<left_motor_value, right_motor_value, cmd, prof,
                                   step, elapsed, status, final_ultrasonic,
                                   abort_phase, writes, gap>>

\* _smooth_start: one pass of the loop at lines 219-256, or the direct set of
\* lines 193-196
AccelStep ==
    /\ pc = "accel"
    /\ UNCHANGED <<bridge_vars, search_vars, service_vars>>
    /\ step < ACCEL_DECEL_STEPS
    /\ IF prof.acceleration_time <= 0
         THEN /\ SetMotors(<<prof.left_motor, prof.right_motor>>)
              /\ writes' = writes + 1
              /\ pc' = "const"
              /\ UNCHANGED <<cmd, prof, step, elapsed, status, final_ultrasonic,
                             samples, abort_phase, gap>>
         ELSE LET vals == SmoothStartValues(prof.left_motor, prof.right_motor,
                                            prof.offset_to_apply, step)
                  step_time == StepTime(prof.acceleration_time)
              IN  IF CheckSafety
                    THEN \E echo \in Samples :
                           LET chk == CheckUltrasonicSafety(echo)
                               check_elapsed == ReadTime(echo)
                           IN  IF ~chk.is_safe
                                 THEN AbortReread(chk, echo, Motors, 0)
                                 ELSE /\ SetMotors(vals)
                                      /\ writes' = writes + 1
                                      /\ step' = step + 1
                                      /\ pc' = IF step + 1 = ACCEL_DECEL_STEPS
                                                 THEN "accel_final" ELSE "accel"
                                      /\ gap' = Max(0, step_time - check_elapsed)
                                      /\ Sampled(chk, echo)
                                      /\ UNCHANGED <<cmd, prof, elapsed, status,
                                                     final_ultrasonic, abort_phase>>
                    ELSE /\ SetMotors(vals)
                         /\ writes' = writes + 1
                         /\ step' = step + 1
                         /\ pc' = IF step + 1 = ACCEL_DECEL_STEPS
                                    THEN "accel_final" ELSE "accel"
                         /\ UNCHANGED <<cmd, prof, elapsed, status, final_ultrasonic,
                                        samples, abort_phase, gap>>

\* _smooth_start lines 258-261: final set to the exact target values
AccelFinal ==
    /\ pc = "accel_final"
    /\ UNCHANGED <<bridge_vars, search_vars, service_vars>>
    /\ SetMotors(<<prof.left_motor, prof.right_motor>>)
    /\ writes' = writes + 1
    /\ pc' = "const"
    /\ step' = 0
    /\ elapsed' = 0
    /\ UNCHANGED <<cmd, prof, status, final_ultrasonic, samples, abort_phase,
                   gap>>

\* lines 401-430 / 750-780: one pass of the constant-phase loop of a forward
\* call
ConstCheck ==
    /\ pc = "const"
    /\ UNCHANGED <<bridge_vars, search_vars, service_vars>>
    /\ CheckSafety
    /\ prof.constant_duration > 0
    /\ \E echo \in Samples :
         LET chk == CheckUltrasonicSafety(echo)
             now == elapsed + ReadTime(echo)
             sleep_time == Min(CHECK_INTERVAL, prof.constant_duration - now)
         IN  IF ~chk.is_safe
               THEN AbortReread(chk, echo, Motors, 0)
               ELSE /\ Sampled(chk, echo)
                    /\ IF now >= prof.constant_duration
                         THEN /\ pc' = "decel"
                              /\ elapsed' = 0
                              /\ gap' = 0
                         ELSE /\ pc' = "const"
                              /\ elapsed' = now + sleep_time
                              /\ gap' = sleep_time
                    /\ step' = 0
                    /\ UNCHANGED <<left_motor_value, right_motor_value, cmd, prof,
                                   status, final_ultrasonic, abort_phase, writes>>

\* lines 431-433, 531-532, 781-783: the constant phase without interlock, or
\* no constant phase at all
ConstSleep ==
    /\ pc = "const"
    /\ UNCHANGED <<bridge_vars, search_vars, service_vars>>
    /\ ~CheckSafety \/ prof.constant_duration <= 0
    /\ pc' = "decel"
    /\ step' = 0
    /\ elapsed' = 0
    /\ UNCHANGED <<left_motor_value, right_motor_value, cmd, prof, status,
                   final_ultrasonic, samples, abort_phase, writes, gap>>

\* _smooth_stop: one pass of the loop at lines 143-171
DecelStep ==
    /\ pc = "decel"
    /\ UNCHANGED <<bridge_vars, search_vars, service_vars>>
    /\ step < ACCEL_DECEL_STEPS
    /\ prof.deceleration_time > 0
    /\ LET vals == SmoothStopValues(prof.left_motor, prof.right_motor, step)
           step_time == StepTime(prof.deceleration_time)
       IN  IF CheckSafety
             THEN \E echo \in Samples :
                    LET chk == CheckUltrasonicSafety(echo)
                        check_elapsed == ReadTime(echo)
                    IN  IF ~chk.is_safe
                          THEN Abort(chk, echo, chk.distance, Motors, 0)
                          ELSE /\ SetMotors(vals)
                               /\ writes' = writes + 1
                               /\ step' = step + 1
                               /\ gap' = Max(0, step_time - check_elapsed)
                               /\ Sampled(chk, echo)
                               /\ UNCHANGED <<pc, cmd, prof, elapsed, status,
                                              final_ultrasonic, abort_phase>>
             ELSE /\ SetMotors(vals)
                  /\ writes' = writes + 1
                  /\ step' = step + 1
                  /\ UNCHANGED <<pc, cmd, prof, elapsed, status, final_ultrasonic,
                                 samples, abort_phase, gap>>

\* _smooth_stop lines 128-130 / 173-175 and the caller's lines 448-458,
\* 537-546, 798-808: final stop, final sensor read, "completed"
Finish ==
    /\ pc = "decel"
    /\ UNCHANGED <<bridge_vars, search_vars, service_vars>>
    /\ step = ACCEL_DECEL_STEPS \/ prof.deceleration_time <= 0
    /\ SetMotors(SmoothStopEnd(left_motor_value, right_motor_value))
    /\ writes' = writes + 1
    /\ \E echo \in Echoes : Return("completed", ReadDistance(echo))
    /\ gap' = 0
    /\ UNCHANGED <<cmd, prof, samples, abort_phase>>

\* ------------------------------------------------------------------- rotate
\* lines 516-523 / 686-696: both motors start at the static friction threshold
StartValues(left_motor, right_motor) ==
    <<Min(STATIC_FRICTION_THRESHOLD, Abs(left_motor)) * Dir(left_motor),
      Min(STATIC_FRICTION_THRESHOLD, Abs(right_motor)) * Dir(right_motor)>>

\* rotate lines 466-524: validation, profile, start at the threshold, 50 ms pause
Rotate(angle_degrees, robot_speed) ==
    /\ pc = "idle"
    /\ UNCHANGED <<bridge_vars, search_vars, service_vars>>
    /\ LET c == [kind |-> "rotate", distance_m |-> 0, radius_m |-> 0,
                 angle_degrees |-> angle_degrees, robot_speed |-> robot_speed]
           p == RotateProfile(angle_degrees, robot_speed)
       IN  IF InvalidMovement(c)
             THEN Invalid(c)
             ELSE /\ Begin(c, p, "rot_target")
                  /\ SetMotors(StartValues(p.left_motor, p.right_motor))
                  /\ writes' = 1
                  /\ gap' = 0

\* rotate lines 526-528: set to target speed
RotTarget ==
    /\ pc = "rot_target"
    /\ UNCHANGED <<bridge_vars, search_vars, service_vars>>
    /\ SetMotors(<<prof.left_motor, prof.right_motor>>)
    /\ writes' = writes + 1
    /\ pc' = "const"
    /\ UNCHANGED <<cmd, prof, step, elapsed, status, final_ultrasonic, samples,
                   abort_phase, gap>>

\* ----------------------------------------------------------------- move_arc
\* move_arc lines 564-669: validation and profile
MoveArc(radius_m, angle_degrees, robot_speed) ==
    /\ pc = "idle"
    /\ UNCHANGED <<bridge_vars, search_vars, service_vars>>
    /\ LET c == [kind |-> "move_arc", distance_m |-> 0, radius_m |-> radius_m,
                 angle_degrees |-> angle_degrees, robot_speed |-> robot_speed]
           p == ArcProfile(radius_m, angle_degrees, robot_speed)
       IN  IF InvalidMovement(c)
             THEN Invalid(c)
             ELSE /\ Begin(c, p, IF p.direction > 0 THEN "pre_check"
                                                    ELSE "arc_start")
                  /\ writes' = 0
                  /\ gap' = 0
                  /\ UNCHANGED <<left_motor_value, right_motor_value>>

\* move_arc lines 686-713: start at the threshold, check, 50 ms pause
ArcStart ==
    /\ pc = "arc_start"
    /\ UNCHANGED <<bridge_vars, search_vars, service_vars>>
    /\ LET vals == StartValues(prof.left_motor, prof.right_motor)
       IN  IF CheckSafety
             THEN \E echo \in Samples :
                    LET chk == CheckUltrasonicSafety(echo)
                    IN  IF ~chk.is_safe
                          THEN AbortReread(chk, echo, vals, 1)
                          ELSE /\ SetMotors(vals)
                               /\ writes' = writes + 1
                               /\ pc' = "arc_target"
                               /\ gap' = START_PAUSE
                               /\ Sampled(chk, echo)
                               /\ UNCHANGED <<cmd, prof, step, elapsed, status,
                                              final_ultrasonic, abort_phase>>
             ELSE /\ SetMotors(vals)
                  /\ writes' = writes + 1
                  /\ pc' = "arc_target"
                  /\ UNCHANGED <<cmd, prof, step, elapsed, status, final_ultrasonic,
                                 samples, abort_phase, gap>>

\* move_arc lines 715-732: check, then set to target speed
ArcTarget ==
    /\ pc = "arc_target"
    /\ UNCHANGED <<bridge_vars, search_vars, service_vars>>
    /\ LET vals == <<prof.left_motor, prof.right_motor>>
       IN  IF CheckSafety
             THEN \E echo \in Samples :
                    LET chk == CheckUltrasonicSafety(echo)
                    IN  IF ~chk.is_safe
                          THEN AbortReread(chk, echo, Motors, 0)
                          ELSE /\ SetMotors(vals)
                               /\ writes' = writes + 1
                               /\ pc' = "arc_post"
                               /\ gap' = 0
                               /\ Sampled(chk, echo)
                               /\ UNCHANGED <<cmd, prof, step, elapsed, status,
                                              final_ultrasonic, abort_phase>>
             ELSE /\ SetMotors(vals)
                  /\ writes' = writes + 1
                  /\ pc' = "const"
                  /\ UNCHANGED <<cmd, prof, step, elapsed, status, final_ultrasonic,
                                 samples, abort_phase, gap>>

\* move_arc lines 734-747: check after reaching target speed
ArcPost ==
    /\ pc = "arc_post"
    /\ UNCHANGED <<bridge_vars, search_vars, service_vars>>
    /\ \E echo \in Samples :
         LET chk == CheckUltrasonicSafety(echo)
         IN  IF ~chk.is_safe
               THEN AbortReread(chk, echo, Motors, 0)
               ELSE /\ pc' = "const"
                    /\ gap' = 0
                    /\ Sampled(chk, echo)
                    /\ UNCHANGED <<left_motor_value, right_motor_value, cmd, prof,
                                   step, elapsed, status, final_ultrasonic,
                                   abort_phase, writes>>

\* ------------------------------------------------------------ specification
Next ==
    \/ \E d \in Distances, s \in Speeds : MoveDistance(d, s)
    \/ \E a \in Angles, s \in Speeds : Rotate(a, s)
    \/ \E r \in ArcRadii, a \in ArcAngles, s \in Speeds : MoveArc(r, a, s)
    \/ PreCheck
    \/ AccelStep
    \/ AccelFinal
    \/ ConstCheck
    \/ ConstSleep
    \/ DecelStep
    \/ Finish
    \/ RotTarget
    \/ ArcStart
    \/ ArcTarget
    \/ ArcPost

Spec == Init /\ [][Next]_vars

\* --------------------------------------- stop() next to a call in progress
\* stop lines 1039-1043, called from another thread while a motion call is
\* in progress: robot.stop() and nothing else; no flag is set that the call
\* in progress could test
Stop ==
    /\ pc # "idle"
    /\ SetMotors(RobotStop)
    /\ stopped' = TRUE
    /\ UNCHANGED <<pc, cmd, prof, step, elapsed, status, final_ultrasonic,
                   low_sample, sample, last_good, abort_phase, writes, gap>>
    /\ UNCHANGED <<bridge_vars, search_vars, service_vars>>

\* the calls stop() is tried against
StopDistances == {-100, 100}

StopAngles == {90}

StopArcs == {<<250, 90>>}

StopNext ==
    \/ \E d \in StopDistances : MoveDistance(d, 5000)
    \/ \E a \in StopAngles : Rotate(a, 5000)
    \/ \E ra \in StopArcs : MoveArc(ra[1], ra[2], 5000)
    \/ PreCheck
    \/ AccelStep
    \/ AccelFinal
    \/ ConstCheck
    \/ ConstSleep
    \/ DecelStep
    \/ Finish
    \/ RotTarget
    \/ ArcStart
    \/ ArcTarget
    \/ ArcPost
    \/ Stop

StopSpec == Init /\ [][StopNext]_vars

TypeOK ==
    /\ pc \in {"idle", "pre_check", "accel", "accel_final", "const", "decel",
               "rot_target", "arc_start", "arc_target", "arc_post"}
    /\ status \in {"none", "running", "completed", "safety", "invalid_movement"}
    /\ left_motor_value \in -MAX_MOTOR_VALUE..MAX_MOTOR_VALUE
    /\ right_motor_value \in -MAX_MOTOR_VALUE..MAX_MOTOR_VALUE
    /\ queue_pc \in {"idle", "check", "run", "pause", "raised", "returned"}
    /\ queue_i \in 0..Len(queued)
    /\ client_threads \in [Threads -> {"none", "loop", "connecting", "open",
                                        "backoff", "exited"}]
    /\ _websocket_client_task \in Threads
    /\ caller \in {"idle", "joining"}
    /\ server \in Servers
    /\ active_connections \subseteq Clients
    /\ _broadcast_running \in BOOLEAN
    /\ _broadcast_task \in Tasks \cup {None}
    /\ tasks \in [Tasks -> {"none", "created", "sleeping", "reading", "sending",
                             "cancelling", "done"}]
    /\ conn \in [Clients -> {"closed", "accepting", "serving", "gone", "awaiting"}]

\* --------------------------------------------------- profile planning alone
\* The pure planning part of the calls (everything before the first sensor or
\* motor access), applied once to a wider range of arguments.
PlanSpeeds == {3000 + 500 * k : k \in 0..14} \cup {9950}

PlanDistances == {d \in -1000..1000 : d # 0 /\ (d % 40 = 0 \/ Abs(d) <= 3)}

PlanRadii == {-5000, -3150, -1000, -250, -54, -27, -10,
              10, 27, 54, 100, 250, 1000, 1880, 3150, 5000}

PlanAngles == {-720, -360, -90, -1, 1, 90, 360, 720}

\* every 15 degrees of the range the HTTP interface accepts, every degree
\* around the 90 degree boundary, and two angles a direct call can pass at
\* which the correction has reached its cap
PlanRotateAngles ==
    {a \in -720..720 : a # 0 /\ (a % 15 = 0 \/ Abs(a) \in 85..100)}
      \cup {-1080, -900, 900, 1080}

PlanMoveDistance(distance_m, robot_speed) ==
    /\ cmd = NoCmd
    /\ UNCHANGED <<bridge_vars, search_vars, service_vars>>
    /\ cmd' = [kind |-> "move_distance", distance_m |-> distance_m,
               radius_m |-> 0, angle_degrees |-> 0, robot_speed |-> robot_speed]
    /\ prof' = MoveDistanceProfile(distance_m, robot_speed)
    /\ UNCHANGED <<left_motor_value, right_motor_value, pc, step, elapsed, status,
                   final_ultrasonic, samples, abort_phase, writes, gap>>

PlanRotate(angle_degrees, robot_speed) ==
    /\ cmd = NoCmd
    /\ UNCHANGED <<bridge_vars, search_vars, service_vars>>
    /\ cmd' = [kind |-> "rotate", distance_m |-> 0, radius_m |-> 0,
               angle_degrees |-> angle_degrees, robot_speed |-> robot_speed]
    /\ prof' = RotateProfile(angle_degrees, robot_speed)
    /\ UNCHANGED <<left_motor_value, right_motor_value, pc, step, elapsed, status,
                   final_ultrasonic, samples, abort_phase, writes, gap>>

PlanMoveArc(radius_m, angle_degrees, robot_speed) ==
    /\ cmd = NoCmd
    /\ UNCHANGED <<bridge_vars, search_vars, service_vars>>
    /\ cmd' = [kind |-> "move_arc", distance_m |-> 0, radius_m |-> radius_m,
               angle_degrees |-> angle_degrees, robot_speed |-> robot_speed]
    /\ prof' = ArcProfile(radius_m, angle_degrees, robot_speed)
    /\ UNCHANGED <<left_motor_value, right_motor_value, pc, step, elapsed, status,
                   final_ultrasonic, samples, abort_phase, writes, gap>>

PlanNext ==
    \/ \E d \in PlanDistances, s \in PlanSpeeds : PlanMoveDistance(d, s)
    \/ \E a \in PlanRotateAngles, s \in PlanSpeeds : PlanRotate(a, s)
    \/ \E r \in PlanRadii, a \in PlanAngles, s \in PlanSpeeds : PlanMoveArc(r, a, s)

PlanSpec == Init /\ [][PlanNext]_vars

\* --------------------------------------------------------- telemetry bridge
\* _websocket_client_async lines 1092-1116: the branch one inbound message
\* takes ("parse_error": json.loads raised; "process_error": the handling
\* raised, as .get of a JSON array or of a null "data")
HandleMessage(data) ==
    IF data.json = "invalid" THEN "parse_error"
    ELSE IF data.json = "array" THEN "process_error"
    ELSE IF Get(data, "type", "") = "detections" THEN "detections"
    ELSE IF Get(data, "type", "") = "event"
              /\ Get(data, "event_type", "") = "labels_updated"
      THEN IF Get(data, "data", [labels |-> 0]) = JsonNull
             THEN "process_error" ELSE "labels_updated"
    ELSE IF Get(data, "type", "") = "labels_response" THEN "labels_response"
    ELSE "ignored"

\* all defaults, the frame of a detections message without any other key
DefaultFrame ==
    [detections |-> FrameDefault("detections"),
     num_detections |-> FrameDefault("num_detections"),
     model |-> FrameDefault("model"), labels |-> FrameDefault("labels")]

\* variant: each entry is written into the cached dict as it is evaluated
EvaluateKey_InPlace(cache, data, key) ==
    [(IF cache = NoFrame THEN DefaultFrame ELSE cache)
        EXCEPT ![key] = Get(data, key, FrameDefault(key))]

\* lines 1097-1101: evaluating one entry of the dict display builds a new
\* dict; the value of the cache while that goes on
EvaluateKey(cache, data, key) == cache

\* lines 1097-1102: the dict the finished display is
BuiltFrame(data) ==
    [detections |-> Get(data, "detections", FrameDefault("detections")),
     num_detections |-> Get(data, "num_detections",
                            FrameDefault("num_detections")),
     model |-> Get(data, "model", FrameDefault("model")),
     labels |-> Get(data, "labels", FrameDefault("labels"))]

\* variant: an error in handling a message leaves the receive loop
AfterHandling_ErrorsPropagate(kind) ==
    IF kind \in {"parse_error", "process_error"} THEN "closing" ELSE "open"

\* lines 1088-1116: where the receiver is after handling a message of the
\* given kind: both except clauses only print, the loop goes on
AfterHandling(kind) == "open"

\* variant: the cleanup at the end of a connection drops the cache
CloseConnection_ClearsCache(cache) == <<NoWebsocket, NoFrame>>

\* lines 1126-1128, 1133-1134, 1138-1139: <<_websocket, latest_detections>>
\* after the cleanup at the end of a connection
CloseConnection(cache) == <<NoWebsocket, cache>>

\* the sender task is running between two of its awaits: the event loop of
\* the bridge thread runs nothing else meanwhile
SenderBusy == sender \in {"ultrasonic", "motors"}

\* _websocket_client_loop line 1066: the while condition
LoopTop ==
    /\ bpc = "loop"
    /\ bpc' = IF _websocket_client_running THEN "connecting" ELSE "stopped"
    /\ UNCHANGED <<_websocket_client_running, _websocket, latest_detections,
                   message, built, lost, dropped, waited>>
    /\ UNCHANGED <<sender_vars, service_vars, left_motor_value, right_motor_value, motion_vars,
                   search_vars>>

\* lines 1078-1085: websockets.connect succeeded
Connected ==
    /\ bpc = "connecting"
    /\ _websocket' = "conn"
    /\ bpc' = "open"
    /\ dropped' = FALSE
    /\ sender' = "ready"
    /\ telemetry' = NoTelemetry
    /\ UNCHANGED <<_websocket_client_running, latest_detections, message,
                   built, lost, waited>>
    /\ UNCHANGED <<service_vars, left_motor_value, right_motor_value, motion_vars,
                   search_vars>>

\* lines 1135-1139: websockets.connect raised; re-raised while running
ConnectFailed ==
    /\ bpc = "connecting"
    /\ lost' = "connect_failed"
    /\ waited' = FALSE
    /\ UNCHANGED dropped
    /\ IF _websocket_client_running
         THEN /\ bpc' = "raised"
              /\ UNCHANGED <<_websocket, latest_detections>>
         ELSE /\ bpc' = "loop"
              /\ _websocket' = CloseConnection(latest_detections)[1]
              /\ latest_detections' = CloseConnection(latest_detections)[2]
    /\ UNCHANGED <<_websocket_client_running, message, built>>
    /\ UNCHANGED <<sender_vars, service_vars, left_motor_value, right_motor_value, motion_vars,
                   search_vars>>

\* _websocket_client_loop lines 1070-1072: the except clause
LoopExcept ==
    /\ bpc = "raised"
    /\ bpc' = IF _websocket_client_running THEN "backoff" ELSE "loop"
    /\ UNCHANGED <<_websocket_client_running, _websocket, latest_detections,
                   message, built, lost, dropped, waited>>
    /\ UNCHANGED <<sender_vars, service_vars, left_motor_value, right_motor_value, motion_vars,
                   search_vars>>

\* line 1073: time.sleep(5)
Backoff ==
    /\ bpc = "backoff"
    /\ bpc' = "loop"
    /\ waited' = TRUE
    /\ UNCHANGED <<_websocket_client_running, _websocket, latest_detections,
                   message, built, lost, dropped>>
    /\ UNCHANGED <<sender_vars, service_vars, left_motor_value, right_motor_value, motion_vars,
                   search_vars>>

\* lines 1088-1093: the next inbound message; break once the client was
\* stopped
Receive(m) ==
    /\ bpc = "open"
    /\ ~SenderBusy
    /\ IF ~_websocket_client_running
         THEN /\ bpc' = "closing"
              /\ lost' = "stopped"
              /\ waited' = FALSE
              /\ UNCHANGED dropped
              /\ UNCHANGED <<message, built>>
         ELSE /\ bpc' = "handling"
              /\ message' = m
              /\ built' = 0
              /\ UNCHANGED <<lost, dropped, waited>>
    /\ UNCHANGED <<_websocket_client_running, _websocket, latest_detections>>
    /\ UNCHANGED <<sender_vars, service_vars, left_motor_value, right_motor_value, motion_vars,
                   search_vars>>

\* lines 1097-1101: one entry of the dict display
EvaluateEntry ==
    /\ bpc = "handling"
    /\ HandleMessage(message) = "detections"
    /\ built < Len(FrameKeys)
    /\ built' = built + 1
    /\ latest_detections' =
          EvaluateKey(latest_detections, message, FrameKeys[built + 1])
    /\ UNCHANGED <<_websocket_client_running, _websocket, bpc, message, lost, dropped,
                   waited>>
    /\ UNCHANGED <<sender_vars, service_vars, left_motor_value, right_motor_value, motion_vars,
                   search_vars>>

\* line 1097: the assignment to self.latest_detections
StoreFrame ==
    /\ bpc = "handling"
    /\ HandleMessage(message) = "detections"
    /\ built = Len(FrameKeys)
    /\ latest_detections' = BuiltFrame(message)
    /\ bpc' = AfterHandling("detections")
    /\ message' = NoMessage
    /\ built' = 0
    /\ fresh' = (fresh \/ spc \in {"check", "inspect"})
    /\ UNCHANGED <<_websocket_client_running, _websocket, lost, dropped, waited>>
    /\ UNCHANGED <<sender_vars, service_vars, left_motor_value, right_motor_value, motion_vars,
                   held, spc, items, center_threshold, i, total_angle_rotated,
                   result, labels_call, ack_received, increments, centered_at>>

\* lines 1104-1116: every other message is printed or dropped
HandleOther ==
    /\ bpc = "handling"
    /\ HandleMessage(message) # "detections"
    /\ bpc' = AfterHandling(HandleMessage(message))
    /\ ack_received' =
          (ack_received
             \/ HandleMessage(message) \in {"labels_response", "labels_updated"})
    /\ dropped' =
          (dropped
             \/ HandleMessage(message) \in {"parse_error", "process_error"})
    /\ message' = NoMessage
    /\ UNCHANGED <<_websocket_client_running, _websocket, latest_detections,
                   built, lost, waited>>
    /\ UNCHANGED <<sender_vars, service_vars, left_motor_value, right_motor_value, motion_vars,
                   held, spc,
                   items, center_threshold, i, total_angle_rotated, result,
                   labels_call, increments, centered_at, fresh>>

\* the connection ends while the receiver waits: closed by the server
\* ("closed_ok", the async for ends) or broken ("closed_error",
\* ConnectionClosed is raised)
ConnectionLost(how) ==
    /\ bpc = "open"
    /\ ~SenderBusy
    /\ bpc' = "closing"
    /\ lost' = how
    /\ waited' = FALSE
    /\ UNCHANGED dropped
    /\ UNCHANGED <<_websocket_client_running, _websocket, latest_detections,
                   message, built>>
    /\ UNCHANGED <<sender_vars, service_vars, left_motor_value, right_motor_value, motion_vars,
                   search_vars>>

\* lines 1118-1134: the finally / except ConnectionClosed cleanup; the
\* coroutine returns normally
Closing ==
    /\ bpc = "closing"
    /\ _websocket' = CloseConnection(latest_detections)[1]
    /\ latest_detections' = CloseConnection(latest_detections)[2]
    /\ bpc' = "loop"
    /\ message' = NoMessage
    /\ built' = 0
    /\ sender' = "none"
    /\ telemetry' = NoTelemetry
    /\ UNCHANGED <<_websocket_client_running, lost, dropped, waited>>
    /\ UNCHANGED <<service_vars, left_motor_value, right_motor_value, motion_vars,
                   search_vars>>

\* stop_websocket_client line 1057
StopWebsocketClient ==
    /\ _websocket_client_running
    /\ _websocket_client_running' = FALSE
    /\ UNCHANGED <<_websocket, latest_detections, bpc, message, built, lost, dropped,
                   waited>>
    /\ UNCHANGED <<sender_vars, service_vars, left_motor_value, right_motor_value, motion_vars,
                   search_vars>>

\* _send_frames_async line 1145: the while condition; the camera image is
\* read and encoded (lines 1147-1156)
SenderTop ==
    /\ bpc = "open"
    /\ sender = "ready"
    /\ sender' = IF _websocket_client_running THEN "ultrasonic" ELSE "done"
    /\ telemetry' = NoTelemetry
    /\ UNCHANGED <<_websocket_client_running, _websocket, latest_detections, bpc,
                   message, built, lost, waited, dropped>>
    /\ UNCHANGED <<service_vars, left_motor_value, right_motor_value, motion_vars,
                   search_vars>>

\* lines 1159-1163: self.ultrasonic.read_distance(); an exception leaves None
SenderReadUltrasonic ==
    /\ sender = "ultrasonic"
    /\ \E echo \in Samples :
         telemetry' = [read |-> {"ultrasonic"},
                       distance_m |-> IF echo = ReadError THEN None
                                      ELSE ReadDistance(echo)]
    /\ sender' = "motors"
    /\ UNCHANGED <<_websocket_client_running, _websocket, latest_detections, bpc,
                   message, built, lost, waited, dropped>>
    /\ UNCHANGED <<service_vars, left_motor_value, right_motor_value, motion_vars,
                   search_vars>>

\* lines 1165-1191: the motor values are read, the frame message is sent and
\* the task sleeps one frame interval
SenderReadMotors ==
    /\ sender = "motors"
    /\ telemetry' = [read |-> {"ultrasonic", "motors"},
                     distance_m |-> telemetry.distance_m,
                     left |-> left_motor_value, right |-> right_motor_value]
    /\ sender' = "sleep"
    /\ UNCHANGED <<_websocket_client_running, _websocket, latest_detections, bpc,
                   message, built, lost, waited, dropped>>
    /\ UNCHANGED <<service_vars, left_motor_value, right_motor_value, motion_vars,
                   search_vars>>

\* line 1191 / 1196: asyncio.sleep(frame_interval) is over
SenderWake ==
    /\ sender = "sleep"
    /\ sender' = "ready"
    /\ telemetry' = NoTelemetry
    /\ UNCHANGED <<_websocket_client_running, _websocket, latest_detections, bpc,
                   message, built, lost, waited, dropped>>
    /\ UNCHANGED <<service_vars, left_motor_value, right_motor_value, motion_vars,
                   search_vars>>

\* get_latest_detections line 1207
GetLatestDetections ==
    /\ spc = "idle"
    /\ held' = latest_detections
    /\ UNCHANGED <<spc, items, center_threshold, i, total_angle_rotated,
                   result, labels_call, ack_received, increments, centered_at, fresh>>
    /\ UNCHANGED <<sender_vars, service_vars, left_motor_value, right_motor_value, motion_vars,
                   bridge_vars>>

BridgeNext ==
    \/ LoopTop
    \/ Connected
    \/ ConnectFailed
    \/ LoopExcept
    \/ Backoff
    \/ \E m \in Inbound : Receive(m)
    \/ EvaluateEntry
    \/ StoreFrame
    \/ HandleOther
    \/ \E how \in {"closed_ok", "closed_error"} : ConnectionLost(how)
    \/ Closing
    \/ StopWebsocketClient
    \/ GetLatestDetections
    \/ SenderTop
    \/ SenderReadUltrasonic
    \/ SenderReadMotors
    \/ SenderWake

BridgeSpec == Init /\ [][BridgeNext]_vars

\* the steps the bridge thread takes by itself; a message arriving, the
\* connection being lost and the outcome of a connection attempt are up to
\* the remote service
BridgeThreadStep ==
    \/ LoopTop
    \/ LoopExcept
    \/ Backoff
    \/ EvaluateEntry
    \/ StoreFrame
    \/ HandleOther
    \/ Closing
    \/ SenderTop
    \/ SenderReadUltrasonic
    \/ SenderReadMotors
    \/ SenderWake

\* the bridge thread keeps being scheduled and every connection attempt ends
BridgeLiveSpec ==
    BridgeSpec /\ WF_vars(BridgeThreadStep) /\ WF_vars(Connected \/ ConnectFailed)

\* ----------------------------------------------- rotate_until_object_center
SearchItems == {{"bottle"}, {"cup"}, {"bottle", "cup"}}

SearchSpeeds == {2000}

SearchThresholds == {199, 200}

\* variant: a box exactly thr pixels off the center does not count
IsCentered_Strict(detection, its, thr) ==
    /\ detection.class_name \in its
    /\ Abs(detection.x1 + detection.x2 - IMAGE_WIDTH) < 2 * thr

\* lines 956-974: the detection is one of the items and the center of its
\* box is within thr pixels of IMAGE_WIDTH / 2 (both sides doubled)
IsCentered(detection, its, thr) ==
    /\ detection.class_name \in its
    /\ Abs(detection.x1 + detection.x2 - IMAGE_WIDTH) <= 2 * thr

\* variant: the last centered detection of the list is taken
FirstCentered_Last(detections, its, thr) ==
    LET hits == {k \in 1..Len(detections) : IsCentered(detections[k], its, thr)}
    IN  IF hits = {} THEN 0 ELSE CHOOSE k \in hits : \A j \in hits : k >= j

\* lines 955-986: index of the first centered detection of the list, 0 if
\* there is none
FirstCentered(detections, its, thr) ==
    LET hits == {k \in 1..Len(detections) : IsCentered(detections[k], its, thr)}
    IN  IF hits = {} THEN 0 ELSE CHOOSE k \in hits : \A j \in hits : k <= j

\* set_labels lines 821-834 under the caller's wait (lines 870-874): "sent"
\* when send returned, "error" when there is no connection or send raised,
\* "timeout" when the 2 s wait for the coroutine ran out
SetLabelsOutcomes(ws) ==
    IF ws = NoWebsocket THEN {"error"} ELSE {"sent", "error", "timeout"}

\* variant: after the send the call waits for an acknowledgement
LabelsCallAfter_AwaitsAck(outcome) == IF outcome = "sent" THEN "pending" ELSE outcome

\* variant: a failed send is only printed and the search goes on
LabelsCallAfter_ErrorIgnored(outcome) == IF outcome = "timeout" THEN "timeout" ELSE "done"

\* set_labels lines 830-832: the call is over when send returned
LabelsCallAfter(outcome) == IF outcome = "sent" THEN "done" ELSE outcome

\* the box is one of the items and the center of its box lies within thr
\* pixels of the horizontal center of the image
TargetCentered(detection, its, thr) ==
    /\ \E item \in its : item = detection.class_name
    /\ detection.x1 + detection.x2 >= IMAGE_WIDTH - 2 * thr
    /\ detection.x1 + detection.x2 <= IMAGE_WIDTH + 2 * thr

\* the call returns
SearchReturn(st, angle, found) ==
    /\ spc' = "idle"
    /\ \E echo \in Echoes :
         result' = [status |-> st, angle_degrees_found |-> angle,
                    found_item |-> found,
                    final_ultrasonic |-> ReadDistance(echo)]

\* lines 836-862: the call starts (items is not empty)
RotateUntilObjectCenter(its, robot_speed, thr) ==
    /\ spc = "idle"
    /\ pc = "idle"
    /\ cmd' = [kind |-> "rotate_until_object_center", distance_m |-> 0,
               radius_m |-> 0, angle_degrees |-> 0, robot_speed |-> robot_speed]
    /\ items' = its
    /\ center_threshold' = thr
    /\ spc' = "set_labels"
    /\ i' = 0
    /\ total_angle_rotated' = 0
    /\ result' = [NoResult EXCEPT !.status = "running"]
    /\ labels_call' = "none"
    /\ ack_received' = FALSE
    /\ increments' = 0
    /\ centered_at' = 0
    /\ fresh' = FALSE
    /\ UNCHANGED <<held, left_motor_value, right_motor_value, bridge_vars,
                   service_vars>>
    /\ UNCHANGED <<pc, prof, step, elapsed, status, final_ultrasonic, samples,
                   abort_phase, writes, gap>>

\* lines 864-895: set_labels; any failure ends the call
SearchSetLabels ==
    /\ spc = "set_labels"
    /\ \E outcome \in SetLabelsOutcomes(_websocket) :
         /\ labels_call' = LabelsCallAfter(outcome)
         /\ IF LabelsCallAfter(outcome) = "done"
              THEN /\ spc' = "propagate"
                   /\ UNCHANGED result
              ELSE SearchReturn("not_found", 0, "")
    /\ UNCHANGED <<held, items, center_threshold, i, total_angle_rotated,
                   ack_received, increments, centered_at, fresh>>
    /\ UNCHANGED <<service_vars, left_motor_value, right_motor_value, motion_vars,
                   bridge_vars>>

\* lines 897-909: after the 0.5 s pause, no cached frame ends the call
SearchPropagated ==
    /\ spc = "propagate"
    /\ UNCHANGED held
    /\ IF latest_detections = NoFrame
         THEN SearchReturn("not_found", 0, "")
         ELSE /\ spc' = "turn"
              /\ UNCHANGED result
    /\ UNCHANGED <<items, center_threshold, i, total_angle_rotated, labels_call,
                   ack_received, increments, centered_at, fresh>>
    /\ UNCHANGED <<service_vars, left_motor_value, right_motor_value, motion_vars,
                   bridge_vars>>

\* lines 936-940: the motors are set for one increment, or the loop is over
\* (lines 988-997)
IncrementStart ==
    /\ spc = "turn"
    /\ IF i < NUM_INCREMENTS
         THEN /\ SetMotors(<<ClampSpeed(cmd.robot_speed),
                             -ClampSpeed(cmd.robot_speed)>>)
              /\ spc' = "stop"
              /\ UNCHANGED result
         ELSE /\ SearchReturn("not_found", total_angle_rotated, "")
              /\ UNCHANGED <<left_motor_value, right_motor_value>>
    /\ UNCHANGED <<held, items, center_threshold, i, total_angle_rotated,
                   labels_call, ack_received, increments, centered_at, fresh>>
    /\ UNCHANGED <<motion_vars, bridge_vars, service_vars>>

\* lines 941-946: robot.stop(), the angle is counted, blur pause
IncrementStop ==
    /\ spc = "stop"
    /\ SetMotors(RobotStop)
    /\ total_angle_rotated' = total_angle_rotated + INCREMENT_DEGREES
    /\ increments' = increments + 1
    /\ spc' = "check"
    /\ UNCHANGED <<held, items, center_threshold, i, result, labels_call,
                   ack_received, centered_at>>
    /\ fresh' = FALSE
    /\ UNCHANGED <<motion_vars, bridge_vars, service_vars>>

\* lines 949-950: the first read of the cache, compared with None
CheckCache ==
    /\ spc = "check"
    /\ UNCHANGED held
    /\ IF latest_detections = NoFrame
         THEN /\ i' = i + 1
              /\ spc' = "turn"
         ELSE /\ spc' = "inspect"
              /\ UNCHANGED i
    /\ UNCHANGED <<items, center_threshold, total_angle_rotated, result,
                   labels_call, ack_received, increments, centered_at, fresh>>
    /\ UNCHANGED <<service_vars, left_motor_value, right_motor_value, motion_vars,
                   bridge_vars>>

\* line 952: the second read of the cache, whose value is inspected
Inspect ==
    /\ spc = "inspect"
    /\ held' = latest_detections
    /\ spc' = "evaluate"
    /\ UNCHANGED <<items, center_threshold, i, total_angle_rotated, result,
                   labels_call, ack_received, increments, centered_at, fresh>>
    /\ UNCHANGED <<service_vars, left_motor_value, right_motor_value, motion_vars,
                   bridge_vars>>

\* lines 952-986: the detections of the frame read are gone through
Evaluate ==
    /\ spc = "evaluate"
    /\ held' = NoFrame
    /\ LET detections == Get(held, "detections", <<>>)
           hit == FirstCentered(detections, items, center_threshold)
           shown == \E k \in 1..Len(detections) :
                       TargetCentered(detections[k], items, center_threshold)
       IN  /\ centered_at' = IF centered_at = 0 /\ shown
                                THEN increments ELSE centered_at
           /\ IF hit # 0
                THEN /\ SearchReturn("found", total_angle_rotated,
                                     detections[hit].class_name)
                     /\ UNCHANGED i
                ELSE /\ i' = i + 1
                     /\ spc' = "turn"
                     /\ UNCHANGED result
    /\ fresh' = FALSE
    /\ UNCHANGED <<items, center_threshold, total_angle_rotated, labels_call,
                   ack_received, increments>>
    /\ UNCHANGED <<service_vars, left_motor_value, right_motor_value, motion_vars,
                   bridge_vars>>

\* the feed during a search: detections and label acknowledgements
SearchFeed ==
    {DetectionsMessage(id) : id \in FeedIds}
      \cup {[json |-> "object", type |-> "labels_response"]}

\* the search next to a bridge whose connection stays up
SearchNext ==
    \/ \E its \in SearchItems, s \in SearchSpeeds, thr \in SearchThresholds :
         RotateUntilObjectCenter(its, s, thr)
    \/ SearchSetLabels
    \/ SearchPropagated
    \/ IncrementStart
    \/ IncrementStop
    \/ CheckCache
    \/ Inspect
    \/ Evaluate
    \/ LoopTop
    \/ Connected
    \/ \E m \in SearchFeed : Receive(m)
    \/ EvaluateEntry
    \/ StoreFrame
    \/ HandleOther

SearchSpec == Init /\ [][SearchNext]_vars

\* the steps of a running rotate_until_object_center call
SearchStep ==
    \/ SearchSetLabels
    \/ SearchPropagated
    \/ IncrementStart
    \/ IncrementStop
    \/ CheckCache
    \/ Inspect
    \/ Evaluate

\* the calling thread keeps running: every sleep of the call is finite and
\* the wait for set_labels is bounded by its timeout
SearchLiveSpec == SearchSpec /\ WF_vars(SearchStep)

\* ------------------------------------------------------------ HTTP interface
\* a movement as the handlers pass it to the controller; `given` names the
\* fields the request carried (the others are None in MovementCommand)
Movement(kind, distance_m, radius_m, angle_degrees, given) ==
    [kind |-> kind, distance_m |-> distance_m, radius_m |-> radius_m,
     angle_degrees |-> angle_degrees, robot_speed |-> 5000, given |-> given]

Ahead == Movement("move_distance", 100, 0, 0, {"distance_m"})

Back == Movement("move_distance", -100, 0, 0, {"distance_m"})

Nowhere == Movement("move_distance", 0, 0, 0, {"distance_m"})

Turn == Movement("rotate", 0, 0, 90, {"angle_degrees"})

Arc == Movement("move_arc", 0, 250, 90, {"radius_m", "angle_degrees"})

ArcNoRadius == Movement("move_arc", 0, 0, 90, {"angle_degrees"})

\* the requests of the three single-movement endpoints and of /move/queue
Requests ==
    {[endpoint |-> "/move/distance", movements |-> <<m>>] :
        m \in {Ahead, Back, Nowhere}}
      \cup {[endpoint |-> "/move/rotate", movements |-> <<Turn>>],
            [endpoint |-> "/move/arc", movements |-> <<Arc>>]}
      \cup {[endpoint |-> "/move/queue", movements |-> ms] :
              ms \in {<<Ahead>>, <<Ahead, Turn>>, <<Back, Nowhere, Ahead>>,
                      <<Turn, Arc, Back>>, <<Ahead, ArcNoRadius>>}}

\* api.py lines 256-289: the fields a queued command must carry
Required(m) ==
    CASE m.kind = "move_distance" -> {"distance_m"}
      [] m.kind = "rotate" -> {"angle_degrees"}
      [] m.kind = "move_arc" -> {"radius_m", "angle_degrees"}

\* the profile the call computes for the movement
ProfileOf(m) ==
    CASE m.kind = "move_distance" ->
           MoveDistanceProfile(m.distance_m, m.robot_speed)
      [] m.kind = "rotate" -> RotateProfile(m.angle_degrees, m.robot_speed)
      [] m.kind = "move_arc" ->
           ArcProfile(m.radius_m, m.angle_degrees, m.robot_speed)

\* the statuses move_distance / rotate / move_arc can return for a movement
MovementOutcomes(m) ==
    IF InvalidMovement(m) THEN {"invalid_movement"}
    ELSE IF m.kind \in {"move_distance", "move_arc"} /\ ProfileOf(m).direction > 0
      THEN {"completed", "safety"}
    ELSE {"completed"}

\* variant: the handlers are plain functions, run in the server's thread pool
Dispatchable_ThreadPool(h) == TRUE

\* api.py lines 95-300: the handlers are coroutines that never await while a
\* movement runs, so the event loop runs one handler from start to response
Dispatchable(h) == \A g \in Slots : handler[g] # "running"

\* the handler has returned the response
Respond(h, resp) ==
    /\ handler' = [handler EXCEPT ![h] = "responded"]
    /\ response' = [response EXCEPT ![h] = resp]
    /\ phase' = [phase EXCEPT ![h] = "none"]

\* api.py lines 294-300: the response of /move/queue
QueueResponse(movements) ==
    [kind |-> "SuccessResponse", success |-> TRUE,
     movement_count |-> Len(movements)]

\* api.py lines 112-116, 140-144, 170-174: the response of a single movement
MovementResult(st) == [kind |-> "MovementResult", status |-> st]

\* a request arrives and the server creates its handler
Accept(h, r) ==
    /\ handler[h] = "idle"
    /\ request' = [request EXCEPT ![h] = r]
    /\ handler' = [handler EXCEPT ![h] = "accepted"]
    /\ UNCHANGED <<qi, phase, outcomes, response, pauses, order>>
    /\ UNCHANGED <<left_motor_value, right_motor_value, motion_vars,
                   bridge_vars, search_vars, yoloe_vars, extra_vars>>

\* the event loop starts the handler; /move/queue converts its commands first
\* and rejects the request when one lacks a field (api.py lines 256-289)
Dispatch(h) ==
    /\ handler[h] = "accepted"
    /\ Dispatchable(h)
    /\ LET ms == request[h].movements
       IN  IF \E k \in 1..Len(ms) : ~(Required(ms[k]) \subseteq ms[k].given)
             THEN /\ Respond(h, [kind |-> "HTTP422"])
                  /\ UNCHANGED qi
             ELSE /\ handler' = [handler EXCEPT ![h] = "running"]
                  /\ qi' = [qi EXCEPT ![h] = 1]
                  /\ phase' = [phase EXCEPT ![h] = "call"]
                  /\ UNCHANGED response
    /\ UNCHANGED <<request, outcomes, pauses, order>>
    /\ UNCHANGED <<left_motor_value, right_motor_value, motion_vars,
                   bridge_vars, search_vars, yoloe_vars, extra_vars>>

\* the movement function is called (queue_movement lines 1024-1034, or the
\* handler's own call): a zero request returns at once, any other one starts
\* writing the motors
CallMovement(h) ==
    /\ handler[h] = "running"
    /\ phase[h] = "call"
    /\ order' = [order EXCEPT ![h] = Append(@, qi[h])]
    /\ LET m == request[h].movements[qi[h]]
       IN  IF InvalidMovement(m)
             THEN /\ outcomes' = [outcomes EXCEPT
                                    ![h] = Append(@, "invalid_movement")]
                  /\ phase' = [phase EXCEPT ![h] = "returned"]
                  /\ UNCHANGED <<left_motor_value, right_motor_value>>
             ELSE /\ SetMotors(<<ProfileOf(m).left_motor,
                                 ProfileOf(m).right_motor>>)
                  /\ phase' = [phase EXCEPT ![h] = "moving"]
                  /\ UNCHANGED outcomes
    /\ UNCHANGED <<request, handler, qi, response, pauses>>
    /\ UNCHANGED <<motion_vars, bridge_vars, search_vars, yoloe_vars, extra_vars>>

\* the movement function returns its result
MovementReturns(h) ==
    /\ handler[h] = "running"
    /\ phase[h] = "moving"
    /\ \E st \in MovementOutcomes(request[h].movements[qi[h]]) :
         outcomes' = [outcomes EXCEPT ![h] = Append(@, st)]
    /\ SetMotors(RobotStop)
    /\ phase' = [phase EXCEPT ![h] = "returned"]
    /\ UNCHANGED <<request, handler, qi, response, pauses, order>>
    /\ UNCHANGED <<motion_vars, bridge_vars, search_vars, yoloe_vars, extra_vars>>

\* variant: the pause also follows the last movement
PauseFollows_Every(index, length) == TRUE

\* queue_movement lines 1036-1037: `if i < len(movements) - 1`
PauseFollows(index, length) == index < length

\* variant: the queue ends at the first movement that did not complete
QueueContinues_UntilFailure(st) == st = "completed"

\* queue_movement lines 1024-1037: the loop body holds no test of the result
\* and no break, so the loop goes on whatever the movement returned
QueueContinues(st) == TRUE

\* after a movement: the single-movement handlers build their response from
\* the result; queue_movement drops the result and pauses or returns
AfterMovement(h) ==
    /\ handler[h] = "running"
    /\ phase[h] = "returned"
    /\ LET ms == request[h].movements
       IN  IF request[h].endpoint # "/move/queue"
             THEN /\ Respond(h, MovementResult(outcomes[h][Len(outcomes[h])]))
             ELSE IF ~QueueContinues(outcomes[h][Len(outcomes[h])])
               THEN Respond(h, QueueResponse(ms))
             ELSE IF PauseFollows(qi[h], Len(ms))
               THEN /\ phase' = [phase EXCEPT ![h] = "pause"]
                    /\ UNCHANGED <<handler, response>>
             ELSE IF qi[h] < Len(ms)
               THEN /\ phase' = [phase EXCEPT ![h] = "call"]
                    /\ UNCHANGED <<handler, response>>
             ELSE Respond(h, QueueResponse(ms))
    /\ qi' = [qi EXCEPT ![h] =
                IF request[h].endpoint = "/move/queue"
                     /\ QueueContinues(outcomes[h][Len(outcomes[h])])
                     /\ ~PauseFollows(@, Len(request[h].movements))
                     /\ @ < Len(request[h].movements)
                  THEN @ + 1 ELSE @]
    /\ UNCHANGED <<request, outcomes, pauses, order>>
    /\ UNCHANGED <<left_motor_value, right_motor_value, motion_vars,
                   bridge_vars, search_vars, yoloe_vars, extra_vars>>

\* queue_movement line 1037: time.sleep(0.5), then the next movement
Pause(h) ==
    /\ handler[h] = "running"
    /\ phase[h] = "pause"
    /\ pauses' = [pauses EXCEPT ![h] = @ + 1]
    /\ IF qi[h] < Len(request[h].movements)
         THEN /\ qi' = [qi EXCEPT ![h] = @ + 1]
              /\ phase' = [phase EXCEPT ![h] = "call"]
              /\ UNCHANGED <<handler, response>>
         ELSE /\ Respond(h, QueueResponse(request[h].movements))
              /\ UNCHANGED qi
    /\ UNCHANGED <<request, outcomes, order>>
    /\ UNCHANGED <<left_motor_value, right_motor_value, motion_vars,
                   bridge_vars, search_vars, yoloe_vars, extra_vars>>

\* the client has its response; the entry is free for the next request
Collect(h) ==
    /\ handler[h] = "responded"
    /\ request' = [request EXCEPT ![h] = NoRequest]
    /\ handler' = [handler EXCEPT ![h] = "idle"]
    /\ qi' = [qi EXCEPT ![h] = 0]
    /\ outcomes' = [outcomes EXCEPT ![h] = <<>>]
    /\ response' = [response EXCEPT ![h] = NoResponse]
    /\ pauses' = [pauses EXCEPT ![h] = 0]
    /\ order' = [order EXCEPT ![h] = <<>>]
    /\ UNCHANGED phase
    /\ UNCHANGED <<left_motor_value, right_motor_value, motion_vars,
                   bridge_vars, search_vars, yoloe_vars, extra_vars>>

ApiNext ==
    \/ \E h \in Slots, r \in Requests : Accept(h, r)
    \/ \E h \in Slots : Dispatch(h)
    \/ \E h \in Slots : CallMovement(h)
    \/ \E h \in Slots : MovementReturns(h)
    \/ \E h \in Slots : AfterMovement(h)
    \/ \E h \in Slots : Pause(h)
    \/ \E h \in Slots : Collect(h)

ApiSpec == Init /\ [][ApiNext]_vars

\* ------------------------------------- HTTP handlers next to the bridge thread
ProcessRequests ==
    {[endpoint |-> "/move/distance", movements |-> <<Ahead>>],
     [endpoint |-> "/move/queue", movements |-> <<Back, Turn>>]}

\* the resources a movement in progress works with: the motor values it
\* writes, and the distance sensor its interlock samples every 50 ms
MotionUses ==
    UNION {{"motors"} \cup
             (IF "safety" \in MovementOutcomes(request[h].movements[qi[h]])
                THEN {"ultrasonic"} ELSE {}) :
           h \in {g \in Slots : handler[g] = "running" /\ phase[g] = "moving"}}

\* the resource the bridge thread is at: the sender task at the sensor or at
\* the motor values (lines 1159-1170), the receiver at the cache (line 1097)
BridgeUses ==
    IF sender = "ultrasonic" THEN {"ultrasonic"}
    ELSE IF sender = "motors" THEN {"motors"}
    ELSE IF bpc = "handling" /\ built = Len(FrameKeys)
      THEN {"latest_detections"}
    ELSE {}

ProcessNext ==
    \/ \E h \in Slots, r \in ProcessRequests : Accept(h, r)
    \/ \E h \in Slots : Dispatch(h)
    \/ \E h \in Slots : CallMovement(h)
    \/ \E h \in Slots : MovementReturns(h)
    \/ \E h \in Slots : AfterMovement(h)
    \/ \E h \in Slots : Pause(h)
    \/ \E h \in Slots : Collect(h)
    \/ LoopTop
    \/ Connected
    \/ Receive(DetectionsMessage(2))
    \/ EvaluateEntry
    \/ StoreFrame
    \/ SenderTop
    \/ SenderReadUltrasonic
    \/ SenderReadMotors
    \/ SenderWake

ProcessSpec == Init /\ [][ProcessNext]_vars

\* ------------------------------------------------- the /ws/yoloe endpoint
\* JSON values: a string, a list, null (JsonNull)
Str(text) == [string |-> text]

List(elements) == [list |-> elements]

IsStr(value) == "string" \in DOMAIN value

IsList(value) == "list" \in DOMAIN value

\* the texts a client sends: text that is not JSON; JSON that is not an
\* object; words with a list (entries to strip, one blank), with a string
\* instead of the list and no request_id, with the empty list; image with a
\* data URL that decodes, with one that does not, with the empty string, with
\* no image_b64; an unknown type; an object without type
ClientTexts ==
    {[json |-> "invalid"],
     [json |-> "array"],
     [json |-> "object", type |-> "words", request_id |-> Str("w1"),
      labels |-> List(<<" person", "bottle", "  ">>)],
     [json |-> "object", type |-> "words", labels |-> Str("person")],
     [json |-> "object", type |-> "words", request_id |-> Str("w2"),
      labels |-> List(<<>>)],
     [json |-> "object", type |-> "image", request_id |-> Str("img1"),
      image_b64 |-> Str("data:image/jpeg;base64,ok")],
     [json |-> "object", type |-> "image", request_id |-> Str("img2"),
      image_b64 |-> Str("garbage")],
     [json |-> "object", type |-> "image", request_id |-> Str("img3"),
      image_b64 |-> Str("")],
     [json |-> "object", type |-> "image", request_id |-> Str("img4")],
     [json |-> "object", type |-> "ping", request_id |-> Str("p1")],
     [json |-> "object", request_id |-> Str("n1")]}

\* texts one connection carries, and texts in flight at a time
MaxTexts == 3

MaxInFlight == 2

\* str(x).strip() on the label texts of the model
Strip(x) ==
    CASE x = " person" -> "person"
      [] x = "  " -> ""
      [] OTHER -> x

\* line 55: {str(x).strip() for x in labels if str(x).strip()}
NormalizeLabels(labels) ==
    {Strip(labels[k]) : k \in 1..Len(labels)} \ {""}

\* _pil_from_b64: the text decodes to an image, or an exception is raised
Decodes(b64) == b64 = "data:image/jpeg;base64,ok"

\* d.predict_pil(pil_img): the detections of the one picture of the model
PredictPil ==
    <<[class_name |-> "person", confidence |-> 90],
      [class_name |-> "cup", confidence |-> 80],
      [class_name |-> "bottle", confidence |-> 70]>>

\* lines 94-95: with labels set, only the detections of these classes
FilterDetections(detections, labels) ==
    LET Kept(det) == det.class_name \in labels
    IN  IF labels # {} THEN SelectSeq(detections, Kept) ELSE detections

ErrorReply(req_id) == [type |-> "error", request_id |-> req_id]

\* msg.get("type") == mtype
HasType(msg, mtype) == "type" \in DOMAIN msg /\ msg.type = mtype

\* lines 39-119 for a parsed object msg: the reply sent and the label set
\* afterwards
ObjectReply(msg, labels) ==
    LET req_id == Get(msg, "request_id", JsonNull)
        given == Get(msg, "labels", JsonNull)
        b64 == Get(msg, "image_b64", JsonNull)
        detections == FilterDetections(PredictPil, labels)
    IN  CASE HasType(msg, "words") ->
               IF ~IsList(given)
                 THEN [reply |-> ErrorReply(req_id), labels |-> labels]
                 ELSE [reply |-> [type |-> "words_ack", request_id |-> req_id,
                                  status |-> "ok",
                                  active_labels |-> NormalizeLabels(given.list)],
                       labels |-> NormalizeLabels(given.list)]
          [] HasType(msg, "image") ->
               IF ~IsStr(b64) \/ b64 = Str("")
                 THEN [reply |-> ErrorReply(req_id), labels |-> labels]
                 ELSE IF ~Decodes(b64.string)
                 THEN [reply |-> ErrorReply(req_id), labels |-> labels]
                 ELSE [reply |-> [type |-> "inference_result",
                                  request_id |-> req_id,
                                  detections |-> detections,
                                  num_detections |-> Len(detections)],
                       labels |-> labels]
          [] OTHER -> [reply |-> ErrorReply(req_id), labels |-> labels]

\* lines 17-23: accept, the empty label set, the hello message
WsAccept ==
    /\ ws_state = "none"
    /\ ws_state' = "open"
    /\ active_labels' = {}
    /\ sent' = <<[type |-> "hello"]>>
    /\ UNCHANGED <<inbox, taken>>
    /\ UNCHANGED <<left_motor_value, right_motor_value, motion_vars,
                   bridge_vars, search_vars, api_vars, extra_vars>>

\* the client sends a text (test_client.py lines 28 and 35)
ClientSends(text) ==
    /\ ws_state = "open"
    /\ Len(taken) + Len(inbox) < MaxTexts
    /\ Len(inbox) < MaxInFlight
    /\ inbox' = Append(inbox, text)
    /\ UNCHANGED <<ws_state, active_labels, sent, taken>>
    /\ UNCHANGED <<left_motor_value, right_motor_value, motion_vars,
                   bridge_vars, search_vars, api_vars, extra_vars>>

\* one pass of the loop at lines 25-119: receive_text returns the oldest text
\* and it is answered. Text that is not JSON is answered at lines 31-37; JSON
\* that is not an object has no get (line 39 raises AttributeError), which
\* the handler of lines 123-125 turns into close(1011)
WsHandle ==
    /\ ws_state = "open"
    /\ inbox # <<>>
    /\ LET raw == Head(inbox)
       IN  /\ inbox' = Tail(inbox)
           /\ taken' = Append(taken, raw)
           /\ CASE raw.json = "invalid" ->
                     /\ sent' = Append(sent, ErrorReply(JsonNull))
                     /\ UNCHANGED <<ws_state, active_labels>>
                [] raw.json = "object" ->
                     /\ sent' = Append(sent, ObjectReply(raw, active_labels).reply)
                     /\ active_labels' = ObjectReply(raw, active_labels).labels
                     /\ UNCHANGED ws_state
                [] OTHER ->
                     /\ ws_state' = "closed"
                     /\ UNCHANGED <<sent, active_labels>>
    /\ UNCHANGED <<left_motor_value, right_motor_value, motion_vars,
                   bridge_vars, search_vars, api_vars, extra_vars>>

\* lines 121-122: the client went away; receive_text raises
\* WebSocketDisconnect once the texts before it are consumed
ClientDisconnects ==
    /\ ws_state = "open"
    /\ inbox = <<>>
    /\ ws_state' = "disconnected"
    /\ UNCHANGED <<inbox, active_labels, sent, taken>>
    /\ UNCHANGED <<left_motor_value, right_motor_value, motion_vars,
                   bridge_vars, search_vars, api_vars, extra_vars>>

YoloeNext ==
    \/ WsAccept
    \/ \E text \in ClientTexts : ClientSends(text)
    \/ WsHandle
    \/ ClientDisconnects

YoloeSpec == Init /\ [][YoloeNext]_vars

\* =================================================================== claims
Forward == cmd.kind \in {"move_distance", "move_arc"} /\ prof.direction > 0

ZeroMagnitude(c) ==
    \/ c.kind = "move_distance" /\ c.distance_m = 0
    \/ c.kind = "rotate" /\ c.angle_degrees = 0
    \/ c.kind = "move_arc" /\ (c.radius_m = 0 \/ c.angle_degrees = 0)

MotorsZero == left_motor_value = 0 /\ right_motor_value = 0

\* C1: in a forward move_distance / move_arc call, an interlock sample below
\* the threshold (at the pre-start check, an acceleration step, a constant-phase
\* check or a deceleration step) ends the call at once with status "safety"
\* and both wheel commands at 0.
C1_SafetyAbort ==
    (Forward /\ low_sample # None)
        => (pc = "idle" /\ status = "safety" /\ MotorsZero)

C1_Witness ==
    /\ cmd.kind = "move_distance" /\ cmd.distance_m > 0
    /\ low_sample = 30
    /\ abort_phase = "ACCEL"
    /\ writes > 1
    /\ status = "safety"

\* C2: a zero-magnitude request (move_distance 0, rotate 0, move_arc with
\* radius 0 or angle 0) returns "invalid_movement" and makes no motor write:
\* the motor values are those before the call.
C2_InvalidMovement ==
    [][ (pc = "idle" /\ ZeroMagnitude(cmd'))
          => /\ pc' = "idle"
             /\ status' = "invalid_movement"
             /\ writes' = 0
             /\ left_motor_value' = left_motor_value
             /\ right_motor_value' = right_motor_value ]_vars

C2_Witness ==
    /\ cmd.kind = "move_arc" /\ cmd.radius_m = 0 /\ cmd.angle_degrees # 0
    /\ status = "invalid_movement"
    /\ writes = 0

\* C3: a forward call that returns without any interlock sample below the
\* threshold returns "completed", and every call that returns "completed"
\* (move_distance, rotate, move_arc) leaves both wheel commands at 0.
C3_Completed ==
    /\ (pc = "idle" /\ Forward /\ ~ZeroMagnitude(cmd) /\ low_sample = None)
          => status = "completed"
    /\ status = "completed" => (pc = "idle" /\ MotorsZero)

C3_Witness ==
    /\ cmd.kind = "move_distance" /\ cmd.distance_m = 100 /\ cmd.robot_speed = 5000
    /\ status = "completed"
    /\ low_sample = None
    /\ writes = 12

\* C4 (as claimed): the distance reported by a call aborted by the interlock
\* is the reading that tripped it.
C4_TriggeringDistanceReported ==
    status = "safety" => final_ultrasonic = low_sample

\* magnitude 0 or within [MIN_MOTOR_VALUE, MAX_MOTOR_VALUE]
InMotorRange(v) ==
    v = 0 \/ (Abs(v) >= MIN_MOTOR_VALUE /\ Abs(v) <= MAX_MOTOR_VALUE)

\* the motor values of this state were written by a step of the
\* deceleration ramp
InDecelRamp == pc = "decel" /\ step > 0

\* the motor values of this state were written by an acceleration step of a
\* backward move_distance
InBackwardAccel ==
    /\ cmd.kind = "move_distance" /\ prof.direction < 0
    /\ pc \in {"accel", "accel_final"} /\ step > 0

\* C5 (as claimed): every value written to a wheel, ramps included, has
\* magnitude 0 or within [MIN_MOTOR_VALUE, MAX_MOTOR_VALUE].
C5_AlwaysInMotorRange ==
    InMotorRange(left_motor_value) /\ InMotorRange(right_motor_value)

\* C5 (amended): every value written to a wheel has magnitude at most
\* MAX_MOTOR_VALUE and is 0 or at least MIN_MOTOR_VALUE, except the steps of
\* the deceleration ramp, whose nonzero values go down to 0.05, and the left
\* wheel at the acceleration steps of a backward move_distance, which is at
\* least MIN_MOTOR_VALUE - LEFT_MOTOR_OFFSET.
C5_MotorRangeOutsideRamps ==
    /\ Abs(left_motor_value) <= MAX_MOTOR_VALUE
    /\ Abs(right_motor_value) <= MAX_MOTOR_VALUE
    /\ \/ InMotorRange(left_motor_value)
       \/ InDecelRamp /\ Abs(left_motor_value) >= JITTER_CUTOFF
       \/ InBackwardAccel
            /\ Abs(left_motor_value) >= MIN_MOTOR_VALUE - LEFT_MOTOR_OFFSET
    /\ \/ InMotorRange(right_motor_value)
       \/ InDecelRamp /\ Abs(right_motor_value) >= JITTER_CUTOFF

C5_Witness ==
    /\ InDecelRamp
    /\ left_motor_value # 0
    /\ Abs(left_motor_value) < MIN_MOTOR_VALUE
    /\ cmd.kind = "rotate"

Sign(x) == IF x > 0 THEN 1 ELSE IF x < 0 THEN -1 ELSE 0

\* C6: every nonzero wheel value carries the sign of the requested direction:
\* sign(distance_m) on both wheels in move_distance, sign(angle_degrees) on both
\* wheels in move_arc, sign(angle_degrees) on the left and the opposite sign on
\* the right wheel in rotate, at every ramp step.
C6_SignMatchesDirection ==
    LET want_left ==
            CASE cmd.kind = "move_distance" -> Sign(cmd.distance_m)
              [] cmd.kind \in {"rotate", "move_arc"} -> Sign(cmd.angle_degrees)
              [] OTHER -> 0
        want_right ==
            CASE cmd.kind = "move_distance" -> Sign(cmd.distance_m)
              [] cmd.kind = "rotate" -> -Sign(cmd.angle_degrees)
              [] cmd.kind = "move_arc" -> Sign(cmd.angle_degrees)
              [] OTHER -> 0
    IN  /\ left_motor_value # 0 => Sign(left_motor_value) = want_left
        /\ right_motor_value # 0 => Sign(right_motor_value) = want_right

C6_Witness ==
    /\ cmd.kind = "rotate" /\ cmd.angle_degrees < 0
    /\ pc = "decel" /\ step = 3
    /\ left_motor_value < 0
    /\ right_motor_value > 0

\* C7 (as claimed): in a forward call, while the motors are commanded nonzero,
\* no more than 50 ms pass between two consecutive interlock samples.
C7_SampleEvery50ms ==
    (Forward /\ pc # "idle" /\ ~MotorsZero) => gap <= CHECK_INTERVAL

PhaseRank(ph) ==
    CASE ph = "IDLE" -> 0 [] ph = "ACCEL" -> 1 [] ph = "CONST" -> 2
      [] ph = "DECEL" -> 3

\* C8: a command moves through IDLE, ACCEL, CONST, DECEL, IDLE in that order,
\* never back to an earlier phase; it returns to IDLE from DECEL on completion,
\* or from any phase when the interlock trips, and that step leaves both
\* wheels at 0 with no ramp value written after the trip.
C8_PhaseOrder ==
    [][ /\ Phase' # Phase =>
             \/ PhaseRank(Phase') = PhaseRank(Phase) + 1
             \/ Phase' = "IDLE" /\ status' = "completed" /\ Phase = "DECEL"
             \/ Phase' = "IDLE" /\ status' = "safety"
        /\ (status = "running" /\ status' = "safety") =>
             /\ pc' = "idle"
             /\ left_motor_value' = 0
             /\ right_motor_value' = 0
             /\ abort_phase' = Phase ]_vars

C8_Witness ==
    /\ status = "safety"
    /\ abort_phase = "DECEL"
    /\ cmd.kind = "move_arc"
    /\ MotorsZero
    /\ pc = "idle"

\* |distance_m| / (robot_speed * MOTOR_SPEED_FACTOR) in ms, to within 2 ms:
\* ms * robot_speed * MOTOR_SPEED_FACTOR = distance_cm * 10^9
IsTravelTime(ms, distance_abs, robot_speed) ==
    LET exact == MulDiv(distance_abs * 1000, 1000000, MOTOR_SPEED_FACTOR)
    IN  ms * robot_speed <= exact /\ ms * robot_speed >= exact - 2 * robot_speed

PlannedMoveDistance == cmd.kind = "move_distance" /\ cmd.distance_m # 0

\* C9 (as claimed): the total duration of move_distance is
\* |distance| / (speed * MOTOR_SPEED_FACTOR) and the acceleration, constant and
\* deceleration durations sum to it (to rounding).
C9_PhasesSumToDuration ==
    PlannedMoveDistance =>
        /\ IsTravelTime(prof.duration_s, Abs(cmd.distance_m), cmd.robot_speed)
        /\ Abs(prof.acceleration_time + prof.constant_duration
                 + prof.deceleration_time - prof.duration_s) <= 2

\* C9 (amended): the total duration of move_distance is
\* |distance| / (speed * MOTOR_SPEED_FACTOR); the acceleration and the
\* deceleration time are ACCEL_DECEL_RATIO of it each, and the constant
\* duration plus half the acceleration and half the deceleration time equals
\* it (to rounding), so the three phase durations sum to 1.25 times the total.
C9_PhasesWeightedSum ==
    PlannedMoveDistance =>
        /\ IsTravelTime(prof.duration_s, Abs(cmd.distance_m), cmd.robot_speed)
        /\ prof.acceleration_time = prof.deceleration_time
        /\ Abs(100 * prof.acceleration_time
                 - ACCEL_DECEL_RATIO * prof.duration_s) <= 100
        /\ Abs(2 * prof.constant_duration + prof.acceleration_time
                 + prof.deceleration_time - 2 * prof.duration_s) <= 2

C9_Witness ==
    /\ cmd.kind = "move_distance" /\ cmd.distance_m = -1000
    /\ cmd.robot_speed = 3000
    /\ prof.duration_s > 182000
    /\ prof.acceleration_time + prof.constant_duration + prof.deceleration_time
         > prof.duration_s + 45000

PlannedArc ==
    cmd.kind = "move_arc" /\ cmd.radius_m # 0 /\ cmd.angle_degrees # 0

\* the speed ratio used is at least MIN_MOTOR_VALUE / speed
RatioFloored ==
    prof.ratio[1] * cmd.robot_speed >= MIN_MOTOR_VALUE * prof.ratio[2]

\* C10 (as claimed): the constant-phase wheel targets of move_arc, after the
\* calibration offset, satisfy radius_m > 0 => |left| <= |right| and
\* radius_m < 0 => |right| <= |left|, and the speed ratio used is at least
\* MIN_MOTOR_VALUE / speed.
C10_ArcOrderAfterOffset ==
    PlannedArc =>
        /\ cmd.radius_m > 0 => Abs(prof.left_motor) <= Abs(prof.right_motor)
        /\ cmd.radius_m < 0 => Abs(prof.right_motor) <= Abs(prof.left_motor)
        /\ RatioFloored

\* C10 (amended): the wheel targets of move_arc before the calibration offset
\* satisfy radius_m > 0 => |left| <= |right| and radius_m < 0 => |right| <=
\* |left|, and the speed ratio used is at least MIN_MOTOR_VALUE / speed; after
\* the offset, radius_m < 0 => |right| <= |left| still holds and for
\* radius_m > 0 the left target exceeds the right one by at most
\* LEFT_MOTOR_OFFSET (by nothing in backward arcs, which get no offset).
C10_ArcOrderBeforeOffset ==
    PlannedArc =>
        /\ cmd.radius_m > 0 => Abs(prof.base_left) <= Abs(prof.base_right)
        /\ cmd.radius_m < 0 => Abs(prof.base_right) <= Abs(prof.base_left)
        /\ RatioFloored
        /\ cmd.radius_m < 0 => Abs(prof.right_motor) <= Abs(prof.left_motor)
        /\ cmd.radius_m > 0 =>
             Abs(prof.left_motor) <= Abs(prof.right_motor)
                 + (IF cmd.angle_degrees > 0 THEN LEFT_MOTOR_OFFSET ELSE 0)

C10_Witness ==
    /\ PlannedArc
    /\ cmd.radius_m = 5000 /\ cmd.angle_degrees = 90 /\ cmd.robot_speed = 5000
    /\ prof.base_left < prof.base_right
    /\ prof.left_motor > prof.right_motor

\* the calls that add the calibration offset to the left wheel: move_distance
\* in both directions, move_arc forward
OffsetApplied ==
    \/ cmd.kind = "move_distance" /\ cmd.distance_m # 0
    \/ PlannedArc /\ prof.direction > 0

\* base left magnitude plus the calibration offset, beyond MAX_MOTOR_VALUE
Overflow == Abs(prof.base_left) + LEFT_MOTOR_OFFSET - MAX_MOTOR_VALUE

\* C11 (as claimed): in move_distance and move_arc, whenever the base left
\* magnitude plus the calibration offset exceeds 1.0, the left target is
\* clipped to magnitude 1.0 and the right target's magnitude is its base
\* magnitude reduced by exactly the clipped overflow.
C11_OverflowRedistributed ==
    (OffsetApplied /\ Overflow > 0) =>
        /\ Abs(prof.left_motor) = MAX_MOTOR_VALUE
        /\ Abs(prof.right_motor) = Abs(prof.base_right) - Overflow

\* the read gave no distance: it raised, timed out, or measured a distance
\* outside the sensor's range
NoReading(echo) ==
    \/ echo = ReadError
    \/ echo = NoEcho
    \/ echo < MIN_DISTANCE_M
    \/ echo > MAX_DISTANCE_M

\* the motors of the running call have been started
Started ==
    /\ pc \notin {"idle", "pre_check", "arc_start"}
    /\ ~(pc = "accel" /\ step = 0)

TimedOutOrError(echo) == echo \in {NoEcho, ReadError}

\* C13 (as claimed): when the read of an interlock sample times out or
\* raises, the distance the sample reports is the last distance read
\* successfully.
C13_LastKnownGoodReported ==
    (sample # NoSample /\ TimedOutOrError(sample.echo) /\ last_good # None)
        => sample.distance = last_good

\* C13 (amended): when the read of an interlock sample times out or raises,
\* the sample reports no distance (None), whatever distance was read before.
C13_NoDistanceReported ==
    (sample # NoSample /\ TimedOutOrError(sample.echo))
        => sample.distance = None

C13_Witness ==
    /\ sample # NoSample
    /\ sample.echo = NoEcho
    /\ last_good = 150
    /\ sample.distance = None
    /\ status = "running"
    /\ ~MotorsZero

\* C14: rotate takes no interlock sample and never returns "safety": a
\* rotate call with a nonzero angle is running or has returned "completed",
\* whatever the sensor reads.
C14_RotateNotInterlocked ==
    (cmd.kind = "rotate" /\ cmd.angle_degrees # 0) =>
        /\ sample = NoSample
        /\ low_sample = None
        /\ status \in {"running", "completed"}
        /\ pc = "idle" => status = "completed"

C14_Witness ==
    /\ cmd.kind = "rotate" /\ cmd.angle_degrees = 90
    /\ pc = "idle"
    /\ status = "completed"
    /\ final_ultrasonic = 30
    /\ MotorsZero

\* the message is an object of type "detections"
IsDetections(m) == "type" \in DOMAIN m /\ m.type = "detections"

\* C16: connection loss, reconnection and shutdown never clear the detection
\* cache: a cache that holds a frame holds a frame after every step, and the
\* only step that changes its value is the handling of an inbound detections
\* message.
C16_CachePreserved ==
    [][ /\ latest_detections # NoFrame => latest_detections' # NoFrame
        /\ latest_detections' # latest_detections =>
              (bpc = "handling" /\ IsDetections(message)) ]_vars

C16_Witness ==
    /\ latest_detections # NoFrame
    /\ latest_detections.model = 3
    /\ lost = "closed_error"
    /\ _websocket = NoWebsocket
    /\ bpc = "connecting"

\* C17 (as claimed): whenever the bridge starts a connection attempt after a
\* loss of the connection (failed connect, abnormal close, clean close by the
\* server), the backoff wait has elapsed since that loss.
C17_BackoffBeforeRetry ==
    (bpc = "connecting" /\ lost \in {"connect_failed", "closed_error", "closed_ok"})
        => waited

\* json.loads or the handling of the message raises
Malformed(m) ==
    \/ m.json \in {"invalid", "array"}
    \/ "data" \in DOMAIN m /\ m.data = JsonNull

\* C19: an inbound message that is not valid JSON, or whose handling raises,
\* is dropped: the step that finishes it leaves the cache and the connection
\* as they were and puts the receiver back at waiting for the next message;
\* only the handling of a message of type "detections" changes the cache.
C19_MalformedDropped ==
    [][ /\ (bpc = "handling" /\ Malformed(message) /\ bpc' # bpc) =>
              /\ bpc' = "open"
              /\ latest_detections' = latest_detections
              /\ _websocket' = _websocket
        /\ latest_detections' # latest_detections =>
              (bpc = "handling" /\ IsDetections(message)) ]_vars

C19_Witness ==
    /\ dropped
    /\ lost = "none"
    /\ bpc = "handling"
    /\ message = DetectionsMessage(2)
    /\ built = 2
    /\ latest_detections = BuiltFrame(DetectionsMessage(3))

\* ------------------------------------------------------------------- C15
\* the frame one inbound detections message stands for, all four entries
\* taken from that message
FrameOf(m) ==
    [key \in {FrameKeys[k] : k \in 1..Len(FrameKeys)} |->
        Get(m, key, FrameDefault(key))]

Whole(frame) ==
    \/ frame = NoFrame
    \/ \E m \in Inbound : IsDetections(m) /\ frame = FrameOf(m)

\* C15: under every interleaving of the receiver with the reader, the cache
\* and every value the reader obtained from it is either no frame or the
\* complete frame of one single inbound detections message, never a mix of
\* two messages
C15_WholeFrames == Whole(latest_detections) /\ Whole(held)

\* the reader holds the frame of one message while the receiver is half way
\* through building the frame of another one
C15_Witness ==
    /\ spc = "evaluate"
    /\ held = FrameOf(DetectionsMessage(2))
    /\ latest_detections = held
    /\ bpc = "handling"
    /\ message = DetectionsMessage(3)
    /\ built = 2

C20_FoundAtFirstCentered ==
    centered_at # 0
      => /\ spc = "idle"
         /\ result.status = "found"
         /\ result.angle_degrees_found = centered_at * INCREMENT_DEGREES
         /\ increments = centered_at

\* the target is first centered after the sixth increment: found at 90
C20_Witness ==
    /\ centered_at = 6
    /\ result.status = "found"
    /\ result.angle_degrees_found = 90

\* ------------------------------------------------------------------- C21
Searching == spc # "idle"

\* the ways a call ends without a find: before the sweep (the labels could
\* not be sent, or there is no cached frame) or after the whole sweep
EndedBeforeSweep ==
    /\ increments = 0
    /\ result.angle_degrees_found = 0
    /\ total_angle_rotated = 0

EndedAfterSweep ==
    /\ increments = 2 * (MAX_ROTATION \div INCREMENT_DEGREES)
    /\ result.angle_degrees_found = 2 * MAX_ROTATION
    /\ left_motor_value = 0
    /\ right_motor_value = 0

C21_Bounded ==
    /\ increments <= 48
    /\ total_angle_rotated = increments * INCREMENT_DEGREES
    /\ (~Searching /\ result.status = "not_found")
          => EndedBeforeSweep \/ EndedAfterSweep
    /\ (~Searching /\ result.status = "not_found" /\ increments > 0)
          => EndedAfterSweep

Writing(h) == handler[h] = "running" /\ phase[h] = "moving"

\* the request is being executed: from its first movement to its response
Executing(h) == handler[h] = "running"

ReportedStatuses(resp) ==
    IF resp.kind = "MovementResult" THEN <<resp.status>> ELSE <<>>

\* C25: the outcome of every executed motion command is reported to its
\* caller as exactly one of completed, safety, invalid_movement, also for
\* each command executed through queue_movement and /move/queue
C25_OutcomesReported ==
    \A h \in Slots :
        handler[h] = "responded"
          => /\ ReportedStatuses(response[h]) = outcomes[h]
             /\ \A k \in 1..Len(outcomes[h]) :
                   outcomes[h][k] \in {"completed", "safety", "invalid_movement"}

\* ------------------------------------------------------------------- C30
InQueue(h) == request[h].endpoint = "/move/queue" /\ handler[h] = "running"

QueueDone(h) ==
    /\ request[h].endpoint = "/move/queue"
    /\ handler[h] = "responded"
    /\ response[h].kind = "SuccessResponse"

\* C30: queue_movement executes its entries in list order, starts entry
\* i+1 only after entry i has returned, sleeps the fixed pause between
\* consecutive entries and does not pause after the last one
C30_QueueInOrder ==
    \A h \in Slots :
        /\ request[h].endpoint = "/move/queue"
              => /\ order[h] = [k \in 1..Len(order[h]) |-> k]
                 /\ Len(order[h]) <= Len(request[h].movements)
        /\ (InQueue(h) /\ phase[h] = "call")
              => /\ Len(order[h]) = qi[h] - 1
                 /\ Len(outcomes[h]) = qi[h] - 1
                 /\ pauses[h] = qi[h] - 1
        /\ (InQueue(h) /\ phase[h] \in {"moving", "returned"})
              => /\ Len(order[h]) = qi[h]
                 /\ Len(outcomes[h]) = qi[h] - (IF phase[h] = "moving" THEN 1 ELSE 0)
                 /\ pauses[h] = qi[h] - 1
        /\ QueueDone(h)
              => /\ Len(order[h]) = Len(request[h].movements)
                 /\ Len(outcomes[h]) = Len(request[h].movements)
                 /\ pauses[h] = Len(request[h].movements) - 1

\* a queue of three movements has run: two pauses
C30_Witness ==
    \E h \in Slots :
        /\ QueueDone(h)
        /\ order[h] = <<1, 2, 3>>
        /\ pauses[h] = 2

\* ------------------------------------------------------------------- C23
Stopped == ~_websocket_client_running

\* the background thread has left _websocket_client_loop with no task left
ThreadTerminated == bpc = "stopped" /\ sender \in {"none", "done"}

\* C23: once stop() / stop_websocket_client() was called the frame sender and
\* the inbound receiver observe it at their next boundary and the background
\* thread eventually terminates, also when the remote service sends no
\* further message and keeps the connection open
C23_ThreadTerminates == Stopped ~> ThreadTerminated

\* ------------------------------------------------------------------- C24
\* C24: the detection cache is the only state or resource both the motion
\* control thread and the bridge thread access: the bridge is never at the
\* distance sensor or at the motor values while a movement is using them
C24_OnlyCacheShared == MotionUses \cap BridgeUses \subseteq {"latest_detections"}

\* ------------------------------------------------------------------- C27
\* an acceleration step of move_distance has written the wheels
AfterAccelStep ==
    /\ cmd.kind = "move_distance"
    /\ pc \in {"accel", "accel_final"}
    /\ step > 0

\* C27: at every acceleration step of move_distance, in both directions, the
\* left wheel's value is the ramped base value (the right wheel's value) plus
\* the signed offset of the constant phase, so that the last ramp step
\* equals the constant-phase target
C27_AccelOffsetConstant ==
    AfterAccelStep
      => /\ left_motor_value = right_motor_value + prof.offset_to_apply
         /\ pc = "accel_final"
              => /\ left_motor_value = prof.left_motor
                 /\ right_motor_value = prof.right_motor


\* ------------------------------------------------------------------- C29
\* the call in progress, or the last one made, is a backward travel call
Backward ==
    /\ cmd.kind \in {"move_distance", "move_arc"}
    /\ prof.direction < 0

\* C29: a backward move_distance or move_arc call takes no interlock sample
\* in any phase and never returns "safety", whatever the sensor reads, while
\* a forward call has taken a sample in each phase it has passed: the
\* pre-check before the first motor write, every acceleration step, every
\* pass of the constant loop and every deceleration step
C29_BackwardNotInterlocked ==
    /\ Backward => /\ sample = NoSample
                   /\ low_sample = None
                   /\ status # "safety"
                   /\ abort_phase = "none"
    /\ CheckSafety /\ status = "running" =>
         /\ pc \in {"accel", "arc_start"} /\ step = 0 => sample.phase = "IDLE"
         /\ pc \in {"accel", "accel_final"} /\ step > 0 => sample.phase = "ACCEL"
         /\ pc \in {"arc_target", "arc_post"} => sample.phase = "ACCEL"
         /\ pc = "const" /\ elapsed > 0 => sample.phase = "CONST"
         /\ pc = "decel" /\ step > 0 => sample.phase = "DECEL"
    /\ CheckSafety /\ status = "completed" /\ prof.deceleration_time > 0 =>
         sample.phase = "DECEL"

\* a backward call ran to completion although the sensor read an obstacle
\* closer than the threshold at its end
C29_Witness ==
    /\ Backward
    /\ status = "completed"
    /\ final_ultrasonic # None
    /\ final_ultrasonic < ULTRASONIC_SAFETY_THRESHOLD_M


\* ------------------------------------------------------------------- C28
\* the detections of the frame the call is about to go through
Inspected == Get(held, "detections", <<>>)

\* twice the horizontal distance of the box center (x1 + x2) / 2 from the
\* image center IMAGE_WIDTH / 2
TwiceOffCenterX(detection) == Abs(detection.x1 + detection.x2 - IMAGE_WIDTH)

\* twice the vertical distance of the box center from the image center
TwiceOffCenterY(detection) == Abs(detection.y1 + detection.y2 - IMAGE_HEIGHT)

\* the positions in the inspected frame of the target boxes that are centered
\* horizontally
CenteredTargets ==
    {k \in 1..Len(Inspected) :
        /\ Inspected[k].class_name \in items
        /\ TwiceOffCenterX(Inspected[k]) <= 2 * center_threshold}

\* C28: the call returns "found" only at an inspection, only when the frame
\* inspected holds a detection of a target class whose horizontal box center
\* is within center_threshold of the image center, whatever its vertical
\* position; and when the frame holds one the call returns at this
\* inspection, with the first of them in list order (the frame is the one
\* read at line 952: what the bridge stores meanwhile changes nothing)
C28_FoundIffCenteredTarget ==
    [][/\ (result'.status = "found" /\ result' # result)
            => spc = "evaluate" /\ CenteredTargets # {}
       /\ (spc = "evaluate" /\ spc' # spc /\ CenteredTargets # {})
            => /\ spc' = "idle"
               /\ result'.status = "found"
               /\ result'.angle_degrees_found = total_angle_rotated
               /\ \E k \in CenteredTargets :
                    /\ \A j \in CenteredTargets : k <= j
                    /\ result'.found_item = Inspected[k].class_name
       /\ (spc = "evaluate" /\ spc' # spc /\ CenteredTargets = {})
            => result' = result /\ spc' = "turn"
       /\ (spc = "evaluate" /\ spc' = spc) => held' = held]_vars

\* the frame about to be gone through holds two target boxes centered
\* horizontally, of different classes, the first of them more than 400 px
\* below the middle of the image
C28_Witness ==
    /\ spc = "evaluate"
    /\ Cardinality(CenteredTargets) = 2
    /\ Inspected[1].class_name # Inspected[2].class_name
    /\ TwiceOffCenterY(Inspected[1]) > 800


\* ------------------------------------------------------------------- C26
\* the type of the one reply a text calls for: words with a list of labels
\* is acknowledged, an image that decodes gets its inference result, and
\* anything else (text that is not JSON, JSON without a usable type, bad
\* fields) an error
ExpectedReply(text) ==
    IF text.json # "object" THEN "error"
    ELSE IF HasType(text, "words") /\ IsList(Get(text, "labels", JsonNull))
      THEN "words_ack"
    ELSE IF /\ HasType(text, "image")
            /\ IsStr(Get(text, "image_b64", JsonNull))
            /\ Decodes(Get(text, "image_b64", Str("")).string)
      THEN "inference_result"
    ELSE "error"

\* the request_id the text carries, null if it carries none
RequestIdOf(text) ==
    IF text.json = "object" THEN Get(text, "request_id", JsonNull) ELSE JsonNull

\* C26: the endpoint sends hello first and then exactly one reply for each
\* text received, in the order received, of the type the text calls for and
\* with the text's request_id; no text ends the connection
C26_OneReplyPerMessage ==
    ws_state # "none"
      => /\ sent[1].type = "hello"
         /\ Len(sent) = 1 + Len(taken)
         /\ \A k \in 1..Len(taken) :
              /\ sent[k + 1].type = ExpectedReply(taken[k])
              /\ sent[k + 1].request_id = RequestIdOf(taken[k])
         /\ ws_state \in {"open", "disconnected"}


\* ------------------------------------------------------------------- C37
\* entry k of the queue handler h is running returned without completing
FailedAt(h, k) ==
    /\ k \in 1..Len(outcomes[h])
    /\ outcomes[h][k] \in {"safety", "invalid_movement"}

\* C37: queue_movement executes every entry whatever the earlier ones
\* returned: after an entry ended with "safety" or "invalid_movement" the
\* queue neither returns nor skips; the entries after it are called in order
\* and the queue returns only when the last entry has returned
C37_RunsPastFailures ==
    \A h \in Slots :
      \A k \in 1..Len(request[h].movements) :
        (request[h].endpoint = "/move/queue" /\ FailedAt(h, k))
          => /\ handler[h] \in {"running", "responded"}
             /\ handler[h] = "responded"
                  => /\ Len(outcomes[h]) = Len(request[h].movements)
                     /\ order[h] = [j \in 1..Len(request[h].movements) |-> j]
             /\ handler[h] = "running"
                  => /\ qi[h] >= k
                     /\ Len(order[h]) \in {qi[h] - 1, qi[h]}

\* a queue has ended whose first entry was stopped by the interlock or
\* rejected and whose last entry ran to completion after it
C37_Witness ==
    \E h \in Slots :
        /\ QueueDone(h)
        /\ FailedAt(h, 1)
        /\ Len(request[h].movements) > 1
        /\ outcomes[h][Len(outcomes[h])] = "completed"


\* ------------------------------------------------------------------- C34
\* the call returns at this step without having searched
ReturnsNotFoundAtZero ==
    /\ spc' = "idle"
    /\ result'.status = "not_found"
    /\ result'.angle_degrees_found = 0
    /\ result'.found_item = ""
    /\ increments' = 0

\* C34: when the label push fails (no connection, a send error or the 2 s
\* timeout) or the cache is still empty after the propagation wait,
\* rotate_until_object_center returns not_found with angle_degrees_found = 0,
\* and from its start to that return no motor value is written
C34_NotFoundWithoutMoving ==
    [][/\ (spc = "set_labels" /\ spc' # spc /\ _websocket = NoWebsocket)
            => labels_call' = "error" /\ ReturnsNotFoundAtZero
       /\ (spc = "set_labels" /\ labels_call' \in {"error", "timeout"})
            => ReturnsNotFoundAtZero
       /\ (spc = "propagate" /\ spc' # spc /\ latest_detections = NoFrame)
            => ReturnsNotFoundAtZero
       /\ spc \in {"set_labels", "propagate"}
            => /\ left_motor_value' = left_motor_value
               /\ right_motor_value' = right_motor_value
               /\ increments = 0]_vars

\* the labels were sent, the cache was still empty after the wait and the
\* call returned not_found at 0 degrees with the motors never set
C34_Witness ==
    /\ spc = "idle"
    /\ labels_call = "done"
    /\ result.status = "not_found"
    /\ result.angle_degrees_found = 0
    /\ increments = 0
    /\ _websocket # NoWebsocket


\* ------------------------------------------------------------------- C39
\* the drive duration rotate computes for the angle at the planned speed
RotateDuration(angle_degrees) ==
    RotateProfile(angle_degrees, cmd.robot_speed).duration_s

\* the duration before the overshoot correction: wheel distance over speed
UncorrectedDuration(angle_degrees) ==
    DurationMs(MulDiv(Radians(Abs(angle_degrees)), WHEELBASE_M, 2 * 1000),
               ClampSpeed(cmd.robot_speed))

\* the correction applied is at most OSHOOT_CORRECTION_MAX
CorrectionCapped ==
    prof.duration_s >=
      MulDiv(UncorrectedDuration(cmd.angle_degrees),
             100000 - OSHOOT_CORRECTION_MAX, 100000)

\* C39 as stated: at a fixed speed no smaller angle has a longer drive
\* duration than the planned one, the 90 degree boundary included, and the
\* correction stays within the cap
C39_DurationMonotone ==
    cmd.kind = "rotate"
      => /\ \A b \in PlanRotateAngles :
              Abs(b) <= Abs(cmd.angle_degrees)
                => RotateDuration(b) <= prof.duration_s
         /\ CorrectionCapped

\* what holds of the code instead: the duration is non-decreasing in |angle_degrees| among the
\* angles up to 90 degrees and among the angles above 90 degrees, and the
\* correction stays within the cap; at the boundary the duration drops by the
\* starting correction, so an angle just above 90 runs shorter than 90
C39_MonotoneOnEachSide ==
    cmd.kind = "rotate"
      => /\ \A b \in PlanRotateAngles :
              (/\ Abs(b) <= Abs(cmd.angle_degrees)
               /\ (Abs(b) > 90) = (Abs(cmd.angle_degrees) > 90))
                => RotateDuration(b) <= prof.duration_s
         /\ CorrectionCapped
         /\ Abs(cmd.angle_degrees) > 90
              => prof.duration_s < UncorrectedDuration(cmd.angle_degrees)

\* a rotation of 91 degrees is planned shorter than one of 90 degrees
C39_Witness ==
    /\ cmd.kind = "rotate"
    /\ Abs(cmd.angle_degrees) = 91
    /\ prof.duration_s < RotateDuration(90)


\* ------------------------------------------------------------------- C33
\* the echo of the sample came back from an obstacle nearer than the safety
\* threshold
ObstacleWithinThreshold(echo) ==
    /\ echo \notin {None, NoEcho, ReadError}
    /\ echo < ULTRASONIC_SAFETY_THRESHOLD_M

\* C33: every interlock sample whose echo came back from an obstacle nearer
\* than ULTRASONIC_SAFETY_THRESHOLD_M is reported unsafe and ends the call
\* with "safety", also when the obstacle is nearer than the 0.02 m minimum
\* range of the sensor driver
C33_CloseObstacleUnsafe ==
    (sample # NoSample /\ ObstacleWithinThreshold(sample.echo))
      => /\ ~sample.is_safe
         /\ status = "safety"


\* ------------------------------------------------------------------- C31
\* the receiver can take the next inbound message now
ReceiverCanTake == ENABLED (\E m \in Inbound : Receive(m))

\* the sender task can take its next step now
SenderCanStep ==
    ENABLED (SenderTop \/ SenderReadUltrasonic \/ SenderReadMotors \/ SenderWake)

\* C31: on an open connection the sender and the receiver never block each
\* other: while the sender produces a frame (its sensor and motor reads
\* included) or sends it, an inbound message can be received, and while the
\* receiver waits for a message the sender goes on
C31_NeitherBlocksTheOther ==
    /\ (bpc = "open" /\ sender \in {"ultrasonic", "motors", "sleep"})
          => ReceiverCanTake
    /\ (bpc = "open" /\ sender \in {"ready", "ultrasonic", "motors", "sleep"})
          => SenderCanStep


\* ------------------------------------------------------------------- C32
\* C32: the frame a "found" result rests on was stored in the cache after
\* the rotation of that increment stopped; a frame cached before the
\* increment is never the basis of "found"
C32_FoundOnFreshFrame ==
    [][(spc = "evaluate" /\ spc' = "idle" /\ result'.status = "found")
          => fresh]_vars


\* ------------------------------------------------------------------- C35
\* C35: once stop() has zeroed the motors during a motion call, the call
\* writes no further nonzero value: both motors stay at 0 until a new motion
\* command is started
C35_StaysStopped == stopped => MotorsZero


\* ------------------------------------------- queue_movement, called directly
\* controls.py line 1010: valid_funcs
valid_funcs == {"move_distance", "move_arc", "rotate"}

\* An entry of the list: whether it is a tuple, and its elements (the
\* function first, one 0 for each argument after it).
Entry(is_tuple, elems) == [is_tuple |-> is_tuple, elems |-> elems]

\* the entries a caller may put in the list
QueueEntries ==
    { Entry(TRUE, <<"move_distance", 0>>),
      Entry(TRUE, <<"rotate", 0, 0>>),
      Entry(TRUE, <<"move_arc", 0, 0>>),
      Entry(FALSE, <<"move_distance", 0>>),
      Entry(TRUE, <<>>),
      Entry(TRUE, <<"stop">>),
      Entry(TRUE, <<"move_distance", 0, 0, 0>>),
      Entry(TRUE, <<"move_arc", 0>>),
      Entry(TRUE, <<"rotate">>) }

MaxQueue == 3
QueueLists == UNION {[1..n -> QueueEntries] : n \in 0..MaxQueue}

\* controls.py lines 1014-1031: the checks made on one entry, in order;
\* "ok" when none raises
EntryError(movement) ==
    IF ~movement.is_tuple \/ Len(movement.elems) = 0
      THEN "not_a_tuple"
      ELSE LET func == Head(movement.elems)
               args == Tail(movement.elems)
           IN  IF func \notin valid_funcs
                 THEN "invalid_function"
                 ELSE IF func \in {"move_distance", "rotate"}
                   THEN IF Len(args) < 1 \/ Len(args) > 2
                          THEN "argument_count" ELSE "ok"
                   ELSE IF Len(args) < 2 \/ Len(args) > 3
                          THEN "argument_count" ELSE "ok"

\* variant: every entry of the list is checked before the first is called
ValidatedAt_Upfront(ms, k) == 1..Len(ms)

\* controls.py lines 1013-1031: the checks are inside the loop body, so
\* the pass at index k checks entry k alone
ValidatedAt(ms, k) == {k}

\* controls.py lines 999-1013: the call; an empty list returns at once
QueueMovement(ms) ==
    /\ queue_pc = "idle"
    /\ queued' = ms
    /\ executed' = <<>>
    /\ queue_i' = IF ms = <<>> THEN 0 ELSE 1
    /\ queue_pc' = IF ms = <<>> THEN "returned" ELSE "check"
    /\ UNCHANGED <<left_motor_value, right_motor_value, motion_vars, bridge_vars,
                   search_vars, api_vars, yoloe_vars, lifecycle_vars,
                   broadcast_vars>>

\* controls.py lines 1014-1031: the checks of one pass; a failing one
\* raises ValueError out of the loop
QueueCheck ==
    /\ queue_pc = "check"
    /\ queue_pc' = IF \E k \in ValidatedAt(queued, queue_i) :
                         EntryError(queued[k]) # "ok"
                     THEN "raised" ELSE "run"
    /\ UNCHANGED <<queued, queue_i, executed>>
    /\ UNCHANGED <<left_motor_value, right_motor_value, motion_vars, bridge_vars,
                   search_vars, api_vars, yoloe_vars, lifecycle_vars,
                   broadcast_vars>>

\* controls.py lines 1033-1037: func(*args), then the pause unless this
\* was the last entry
QueueRun ==
    /\ queue_pc = "run"
    /\ executed' = Append(executed, queue_i)
    /\ queue_pc' = IF queue_i < Len(queued) THEN "pause" ELSE "returned"
    /\ UNCHANGED <<queued, queue_i>>
    /\ UNCHANGED <<left_motor_value, right_motor_value, motion_vars, bridge_vars,
                   search_vars, api_vars, yoloe_vars, lifecycle_vars,
                   broadcast_vars>>

\* controls.py lines 1036-1037, 1013: time.sleep(0.5) returns and the loop
\* takes the next entry
QueuePause ==
    /\ queue_pc = "pause"
    /\ queue_i' = queue_i + 1
    /\ queue_pc' = "check"
    /\ UNCHANGED <<queued, executed>>
    /\ UNCHANGED <<left_motor_value, right_motor_value, motion_vars, bridge_vars,
                   search_vars, api_vars, yoloe_vars, lifecycle_vars,
                   broadcast_vars>>

\* the caller has the result (None, or the ValueError); the call's frame is
\* gone and another call may be made
QueueReturn ==
    /\ queue_pc \in {"raised", "returned"}
    /\ queue_pc' = "idle"
    /\ queued' = <<>>
    /\ queue_i' = 0
    /\ executed' = <<>>
    /\ UNCHANGED <<left_motor_value, right_motor_value, motion_vars, bridge_vars,
                   search_vars, api_vars, yoloe_vars, lifecycle_vars,
                   broadcast_vars>>

QueueNext ==
    \/ \E ms \in QueueLists : QueueMovement(ms)
    \/ QueueCheck
    \/ QueueRun
    \/ QueuePause
    \/ QueueReturn

QueueSpec == Init /\ [][QueueNext]_vars

\* C38: queue_movement checks an entry only when the loop reaches it: a
\* ValueError is raised at the first invalid entry, after every entry before
\* it has been called in order, and no entry from it onward is ever called;
\* a call that returns has called every entry.
C38_ValidatedWhenReached ==
    /\ \A n \in 1..Len(executed) :
           /\ executed[n] = n
           /\ EntryError(queued[n]) = "ok"
    /\ queue_pc = "raised" =>
           /\ EntryError(queued[queue_i]) # "ok"
           /\ Len(executed) = queue_i - 1
    /\ queue_pc = "returned" => Len(executed) = Len(queued)

\* a list whose third entry has a wrong argument count raised after its
\* first two entries were called
C38_Witness ==
    /\ queue_pc = "raised"
    /\ queue_i = 3
    /\ executed = <<1, 2>>
    /\ EntryError(queued[3]) = "argument_count"


\* ------------------------------- start_websocket_client / stop_websocket_client
\* the bridge state the two calls leave alone
bridge_rest == <<_websocket, latest_detections, bpc, message, built, lost, waited,
                 dropped, sender_vars>>

\* a thread that start_websocket_client created and that has not returned
\* from _websocket_client_loop
Alive(t) == client_threads[t] \notin {"none", "exited"}

LifecycleFrame ==
    UNCHANGED <<left_motor_value, right_motor_value, motion_vars, bridge_rest,
                search_vars, api_vars, yoloe_vars, queue_vars, broadcast_vars>>

\* controls.py lines 1045-1053: nothing when the flag is set; otherwise
\* the flag is set and a new daemon thread is stored and started
StartWebsocketClient ==
    /\ caller = "idle"
    /\ IF _websocket_client_running
         THEN UNCHANGED <<_websocket_client_running, client_threads,
                          _websocket_client_task>>
         ELSE \E t \in Threads :
                /\ client_threads[t] = "none"
                /\ \A u \in Threads : u < t => client_threads[u] # "none"
                /\ _websocket_client_running' = TRUE
                /\ client_threads' = [client_threads EXCEPT ![t] = "loop"]
                /\ _websocket_client_task' = t
    /\ UNCHANGED caller
    /\ LifecycleFrame

\* controls.py lines 1055-1060: the flag is cleared and the stored thread
\* is joined for at most 2 seconds
StopWebsocketClientJoin ==
    /\ caller = "idle"
    /\ _websocket_client_running' = FALSE
    /\ caller' = IF _websocket_client_task # None THEN "joining" ELSE "idle"
    /\ UNCHANGED <<client_threads, _websocket_client_task>>
    /\ LifecycleFrame

\* controls.py line 1060: join returns because the thread has ended
JoinReturns ==
    /\ caller = "joining"
    /\ client_threads[_websocket_client_task] = "exited"
    /\ caller' = "idle"
    /\ UNCHANGED <<_websocket_client_running, client_threads, _websocket_client_task>>
    /\ LifecycleFrame

\* controls.py line 1060: join(timeout=2.0) returns with the thread still
\* inside a call that can last longer than that (connecting, waiting for a
\* message, time.sleep(5))
JoinTimesOut ==
    /\ caller = "joining"
    /\ client_threads[_websocket_client_task] \in {"connecting", "open", "backoff"}
    /\ caller' = "idle"
    /\ UNCHANGED <<_websocket_client_running, client_threads, _websocket_client_task>>
    /\ LifecycleFrame

ThreadGoes(t, to) ==
    /\ client_threads' = [client_threads EXCEPT ![t] = to]
    /\ UNCHANGED <<_websocket_client_running, _websocket_client_task, caller>>
    /\ LifecycleFrame

\* controls.py lines 1064-1066: the test of the while loop
ThreadLoopTop(t) ==
    /\ client_threads[t] = "loop"
    /\ ThreadGoes(t, IF _websocket_client_running THEN "connecting" ELSE "exited")

\* controls.py lines 1085-1091: the connection is made
ThreadConnected(t) ==
    /\ client_threads[t] = "connecting"
    /\ ThreadGoes(t, "open")

\* controls.py lines 1067-1073: an exception (while connecting or on an
\* open connection) sleeps 5 seconds if the flag is set
ThreadException(t) ==
    /\ client_threads[t] \in {"connecting", "open"}
    /\ ThreadGoes(t, IF _websocket_client_running THEN "backoff" ELSE "loop")

\* controls.py lines 1100-1103: a message arrives; the flag is tested, the
\* loop is left when it is clear, otherwise the message is handled (a
\* frame is written to the detection cache)
ThreadReceives(t) ==
    /\ client_threads[t] = "open"
    /\ ThreadGoes(t, IF _websocket_client_running THEN "open" ELSE "loop")

\* controls.py lines 1100, 1125-1139: the server closes the connection and
\* _websocket_client_async returns
ThreadClosed(t) ==
    /\ client_threads[t] = "open"
    /\ ThreadGoes(t, "loop")

\* controls.py line 1073: time.sleep(5) returns
ThreadBackoff(t) ==
    /\ client_threads[t] = "backoff"
    /\ ThreadGoes(t, "loop")

LifecycleNext ==
    \/ StartWebsocketClient
    \/ StopWebsocketClientJoin
    \/ JoinReturns
    \/ JoinTimesOut
    \/ \E t \in Threads :
         \/ ThreadLoopTop(t)
         \/ ThreadConnected(t)
         \/ ThreadException(t)
         \/ ThreadReceives(t)
         \/ ThreadClosed(t)
         \/ ThreadBackoff(t)

LifecycleSpec == Init /\ [][LifecycleNext]_vars

\* C36: once a start_websocket_client or stop_websocket_client call has
\* returned, at most one thread created by start_websocket_client is still
\* running _websocket_client_loop.
C36_AtMostOneThread ==
    caller = "idle" => Cardinality({t \in Threads : Alive(t)}) <= 1


\* ------------------------------------- the telemetry websocket servers
\* yoloe-backend/websocket.py (TelemetryManager) and jetbot-backend/websocket.py
\* (WebSocketManager) have the same connect_websocket and _broadcast_telemetry
\* but for the container iterated while broadcasting. Handlers and tasks share
\* one event loop: each action is the code between two awaits.
BroadcastFrame ==
    UNCHANGED <<left_motor_value, right_motor_value, motion_vars, bridge_vars,
                search_vars, api_vars, yoloe_vars, queue_vars, lifecycle_vars,
                server>>

\* a task that has been created, has not ended and has not been cancelled
Live(t) == tasks[t] \in {"created", "sleeping", "reading", "sending"}

\* a client opens a connection: connect_websocket is called and waits in
\* websocket.accept() (yoloe 44, jetbot 46)
ClientConnects(c) ==
    /\ conn[c] = "closed"
    /\ conn' = [conn EXCEPT ![c] = "accepting"]
    /\ UNCHANGED <<active_connections, _broadcast_running, _broadcast_task, tasks,
                   awaited, iter_used>>
    /\ BroadcastFrame

\* yoloe 45-51, jetbot 47-53: the connection is added and, if
\* _broadcast_running is clear, the flag is set and a task is created and
\* stored
Accepted(c) ==
    /\ conn[c] = "accepting"
    /\ active_connections' = active_connections \cup {c}
    /\ conn' = [conn EXCEPT ![c] = "serving"]
    /\ IF _broadcast_running
         THEN UNCHANGED <<_broadcast_running, _broadcast_task, tasks>>
         ELSE \E t \in Tasks :
                /\ tasks[t] = "none"
                /\ \A u \in Tasks : u < t => tasks[u] # "none"
                /\ _broadcast_running' = TRUE
                /\ tasks' = [tasks EXCEPT ![t] = "created"]
                /\ _broadcast_task' = t
    /\ UNCHANGED <<awaited, iter_used>>
    /\ BroadcastFrame

\* the peer goes away; the handler's next receive_text will raise
\* WebSocketDisconnect and sends to it fail
PeerCloses(c) ==
    /\ conn[c] = "serving"
    /\ conn' = [conn EXCEPT ![c] = "gone"]
    /\ UNCHANGED <<active_connections, _broadcast_running, _broadcast_task, tasks,
                   awaited, iter_used>>
    /\ BroadcastFrame

\* yoloe 91-105, jetbot 67-80: WebSocketDisconnect; the connection is
\* removed and, when none is left and a task is stored, the flag is
\* cleared, the task cancelled and awaited. A task just created has its
\* first step queued ahead of this handler, so it has started by now.
Disconnected(c) ==
    /\ conn[c] = "gone"
    /\ \A t \in Tasks : tasks[t] # "created"
    /\ active_connections' = active_connections \ {c}
    /\ IF active_connections' = {} /\ _broadcast_task # None
         THEN /\ _broadcast_running' = FALSE
              /\ tasks' = [tasks EXCEPT ![_broadcast_task] =
                               IF Live(_broadcast_task) THEN "cancelling" ELSE @]
              /\ conn' = [conn EXCEPT ![c] = "awaiting"]
              /\ awaited' = [awaited EXCEPT ![c] = _broadcast_task]
         ELSE /\ conn' = [conn EXCEPT ![c] = "closed"]
              /\ UNCHANGED <<_broadcast_running, tasks, awaited>>
    /\ UNCHANGED <<_broadcast_task, iter_used>>
    /\ BroadcastFrame

\* yoloe 101-105, jetbot 76-80: the awaited task has ended;
\* _broadcast_task is set to None, whatever it holds by now
CancelAwaited(c) ==
    /\ conn[c] = "awaiting"
    /\ tasks[awaited[c]] = "done"
    /\ _broadcast_task' = None
    /\ conn' = [conn EXCEPT ![c] = "closed"]
    /\ awaited' = [awaited EXCEPT ![c] = None]
    /\ UNCHANGED <<active_connections, _broadcast_running, tasks, iter_used>>
    /\ BroadcastFrame

\* yoloe 288-295, 329, jetbot 87-94, 120: the task starts, or wakes from
\* asyncio.sleep: it ends when the flag is clear (the finally clause
\* clears it again), sleeps 0.1 s when nobody is connected, and otherwise
\* goes to read the telemetry
TaskWakes(t) ==
    /\ tasks[t] \in {"created", "sleeping"}
    /\ IF ~_broadcast_running
         THEN /\ tasks' = [tasks EXCEPT ![t] = "done"]
              /\ _broadcast_running' = FALSE
         ELSE /\ tasks' = [tasks EXCEPT ![t] =
                               IF active_connections = {} THEN "sleeping" ELSE "reading"]
              /\ UNCHANGED _broadcast_running
    /\ UNCHANGED <<active_connections, _broadcast_task, conn, awaited, iter_used>>
    /\ BroadcastFrame

\* yoloe 294-301, jetbot 93-100: the telemetry is read and the iteration
\* over the connections begins: yoloe iterates a copy, jetbot the set itself
TaskReads(t) ==
    /\ tasks[t] = "reading"
    /\ tasks' = [tasks EXCEPT ![t] = "sending"]
    /\ iter_used' = [iter_used EXCEPT ![t] = Cardinality(active_connections)]
    /\ UNCHANGED <<active_connections, _broadcast_running, _broadcast_task, conn,
                   awaited>>
    /\ BroadcastFrame

\* jetbot 100: `for client in self.active_connections` raises RuntimeError
\* when the set changed size during one of the sends
SetChangedSize(t) ==
    /\ server = "jetbot"
    /\ Cardinality(active_connections) # iter_used[t]

\* yoloe 301-322, jetbot 100-113: the sends are over. The clients whose
\* send failed are removed and the task sleeps 0.033 s; a RuntimeError of
\* the iteration is caught by `except Exception` and ends the task through
\* the finally clause
TaskSent(t) ==
    /\ tasks[t] = "sending"
    /\ IF SetChangedSize(t)
         THEN /\ tasks' = [tasks EXCEPT ![t] = "done"]
              /\ _broadcast_running' = FALSE
              /\ UNCHANGED active_connections
         ELSE /\ tasks' = [tasks EXCEPT ![t] = "sleeping"]
              /\ active_connections' =
                     {c \in active_connections : conn[c] # "gone"}
              /\ UNCHANGED _broadcast_running
    /\ iter_used' = [iter_used EXCEPT ![t] = None]
    /\ UNCHANGED <<_broadcast_task, conn, awaited>>
    /\ BroadcastFrame

\* yoloe 324-329, jetbot 115-120: CancelledError is delivered at the await
\* the task is in; the finally clause clears the flag
TaskCancelled(t) ==
    /\ tasks[t] = "cancelling"
    /\ tasks' = [tasks EXCEPT ![t] = "done"]
    /\ _broadcast_running' = FALSE
    /\ iter_used' = [iter_used EXCEPT ![t] = None]
    /\ UNCHANGED <<active_connections, _broadcast_task, conn, awaited>>
    /\ BroadcastFrame

BroadcastNext ==
    \/ \E c \in Clients :
         \/ ClientConnects(c)
         \/ Accepted(c)
         \/ PeerCloses(c)
         \/ Disconnected(c)
         \/ CancelAwaited(c)
    \/ \E t \in Tasks :
         \/ TaskWakes(t)
         \/ TaskReads(t)
         \/ TaskSent(t)
         \/ TaskCancelled(t)

\* either server
BroadcastInitial ==
    /\ Constructed
    /\ server \in Servers

BroadcastSpec == BroadcastInitial /\ [][BroadcastNext]_vars

\* C40: whenever a client is connected, exactly one broadcast task is
\* running.
C40_OneBroadcastTask ==
    active_connections # {} => Cardinality({t \in Tasks : Live(t)}) = 1

====
